---------------------------- MODULE Spec2Model ----------------------------
(***************************************************************************)
(* Persona memory engine of the cafe simulation                            *)
(* (src/src/services/enhancedMemory.js): the in-process cache of           *)
(* per-persona MemoryState records and the operations that read and        *)
(* mutate it; and the batch orchestrator of a simulation turn              *)
(* (src/src/services/batchProcessor.js) with the provider that asks the    *)
(* decision oracle (src/src/services/oProvider.js, oThreadManager.js).     *)
(*                                                                         *)
(* Conventions of the model                                                *)
(*  - prices are integers in cents (5.00 dollars is 500), so that the      *)
(*    percentage thresholds of calculatePricePerception are exact integer  *)
(*    comparisons;                                                         *)
(*  - JavaScript null is the value Null for numbers and NoPeak for the     *)
(*    peakExperience record;                                               *)
(*  - the free-text fields of a visit (reasoning) and its wall-clock       *)
(*    timestamp are left out: no operation reads them;                     *)
(*  - an emotion outside the seven known ones (or a missing one) is the    *)
(*    string "unknown";                                                    *)
(*  - a quotient of two counts is kept as a fraction (see Ratio);          *)
(*  - code that runs between two awaits is one step: JavaScript runs it    *)
(*    without interleaving.                                                *)
(***************************************************************************)
EXTENDS Integers, Sequences, FiniteSets, TLC

VARIABLES
  enhancedMemoryCache,  \* enhancedMemory.js:61, persona id -> MemoryState
  persisted,            \* the content of ENHANCED_MEMORY_FILE (enhancedMemory.js:15)
  writable,             \* whether fs.writeFileSync on that file succeeds
  ret,                  \* the value returned by the last operation
  visitLog,             \* history variable: every visit recorded, per persona
  trust0,               \* history variable: the trust score each persona started with
  trustLog,             \* history variable: the emotions passed to updateTrustWithEmotion
  turn,                 \* the frame of the processBatchedSimulation invocation
                        \* (batchProcessor.js:64-188): its arguments, locals and position
  memoryCache,          \* personaMemory.js:34, persona id -> state of the legacy store,
                        \* its memory and lifetime_stats being references into heap
  heap,                 \* the arrays and objects those references point to
  memoryFile,           \* the content of MEMORY_FILE (personaMemory.js:14)
  legacyCalls,          \* history variable: the calls that wrote to the legacy store
  threadMap,            \* oThreadManager.js:12, persona id -> thread id
  remoteThreads,        \* the threads openai.beta.threads.create has created
  threadCalls,          \* the frames of the getOrCreateThread invocations
                        \* (oThreadManager.js:19-39)
  agent,                \* the frame of one simulatePersona invocation and of the
                        \* runAgent invocation under it (oProvider.js:104-149,
                        \* oThreadManager.js:61-139)
  flight,               \* the frame of a second processBatchedSimulation invocation,
                        \* in flight while the one of turn runs
  seen                  \* history variable: turn number -> persona id -> the
                        \* MemoryState the callback of that turn read for its context

\* the legacy store
legacy == <<memoryCache, heap, memoryFile, legacyCalls>>

\* the thread manager and the oracle
oracle == <<threadMap, remoteThreads, threadCalls, agent>>

\* a second request in flight
overlap == <<flight, seen>>

\* the state outside the enhanced memory store and the turn
elsewhere == <<legacy, oracle, overlap>>

\* the enhanced memory store, its history variables and the turn
store == <<enhancedMemoryCache, persisted, writable, visitLog, trust0, trustLog, turn>>

vars == <<enhancedMemoryCache, persisted, writable, ret, visitLog, trust0, trustLog, turn,
          elsewhere>>

---------------------------------------------------------------------------
(* Bounds of the model *)

\* personas of the population (the program creates 20)
NumPersonas == 2
\* mutating calls followed in Spec
MaxCalls == 3
\* updateTrustWithEmotion calls followed in SpecTrust
MaxTrustCalls == 3
\* visits of the persona followed in SpecExperience
MaxVisits == 6
\* visits of the persona followed in SpecGrudge
MaxGrudgeVisits == 4
\* visits of the persona followed in SpecHistory
MaxHistVisits == 15
\* visits of the persona followed in SpecAnchor
MaxAnchorVisits == 6
\* visits of the persona followed in SpecPerception
MaxPerceptionVisits == 2
\* visits recorded in SpecHabit
MaxHabitVisits == 6
\* visits of the persona followed in SpecNeutral
MaxNeutralVisits == 8
\* visits, and trust updates, of the persona followed in SpecMood
MaxMoodCalls == 2
\* calls that write to the legacy store in SpecLegacy
MaxLegacyCalls == 3
\* getOrCreateThread invocations in SpecThreads
MaxThreadCalls == 3
\* longest result list given to calculateMarketMomentum in SpecMomentum
MaxResults == 10
\* personas of the catalog in the specifications of a turn (the program has 20)
CatalogSize == 4

---------------------------------------------------------------------------
(* Program constants *)

\* enhancedMemory.js:16
MAX_VISIT_HISTORY == 10

\* JavaScript null in a numeric field (prices and turns are positive)
Null == -1

PersonaIds == 1..NumPersonas

\* the persona whose life the single-persona specifications follow
Focus == CHOOSE p \in PersonaIds : TRUE

NegativeEmotions == {"frustrated", "angry", "betrayed"}
PositiveEmotions == {"satisfied", "delighted", "loyal"}
KnownEmotions == PositiveEmotions \cup {"neutral"} \cup NegativeEmotions
Emotions == KnownEmotions \cup {"unknown"}
Decisions == {"Buy", "Skip", "Switch"}

\* peakExperience: null
NoPeak == [turn |-> Null, quality |-> Null, price |-> Null, emotion |-> "none"]

\* DEFAULT_ENHANCED_STATE, enhancedMemory.js:21-56
DEFAULT_ENHANCED_STATE ==
  [ trust_score |-> 100,
    visitHistory |-> << >>,
    priceAnchoring |->
      [ initialPrice |-> Null, lastPricePaid |-> Null,
        lowestPriceSeen |-> Null, highestPriceSeen |-> Null ],
    experienceTracking |->
      [ consecutiveFrustrations |-> 0, consecutiveBuys |-> 0,
        peakExperience |-> NoPeak, hasRoutine |-> FALSE, routineBrokenCount |-> 0 ],
    competitorKnowledge |->
      [ discoveredCompetitor |-> FALSE, competitorPrice |-> Null, lastSwitchTurn |-> Null ],
    lifetimeStats |->
      [ totalVisits |-> 0, totalBuys |-> 0, totalSkips |-> 0, totalSwitches |-> 0,
        totalSpent |-> 0, timesDisappointed |-> 0, timesDelighted |-> 0 ],
    flags |->
      [ isPermanentlyGone |-> FALSE, isOnLastChance |-> FALSE, lastChanceGivenTurn |-> Null ] ]

Min(a, b) == IF a < b THEN a ELSE b
Max(a, b) == IF a > b THEN a ELSE b
Abs(a) == IF a < 0 THEN -a ELSE a

---------------------------------------------------------------------------
(* getEnhancedMemoryState, enhancedMemory.js:111-116 *)

\* the cache after the lookup: a missing persona gets a copy of the default state
CacheWith(cache, personaId) ==
  IF personaId \in DOMAIN cache
    THEN cache
    ELSE [q \in (DOMAIN cache) \cup {personaId} |->
            IF q = personaId THEN DEFAULT_ENHANCED_STATE ELSE cache[q]]

getEnhancedMemoryState(cache, personaId) == CacheWith(cache, personaId)[personaId]

---------------------------------------------------------------------------
(* recordVisit, enhancedMemory.js:123-224 *)

\* the record pushed at enhancedMemory.js:128-136
Visit(turnNumber, decision, price, quality, emotion) ==
  [turn |-> turnNumber, decision |-> decision, price |-> price,
   quality |-> quality, emotion |-> emotion]

\* mutant of KeepLastVisits: slice(0, N) in place of slice(-N)
KeepFirstVisits(history) ==
  IF Len(history) > MAX_VISIT_HISTORY
    THEN SubSeq(history, 1, MAX_VISIT_HISTORY)
    ELSE history

\* enhancedMemory.js:138-141: keep only the last MAX_VISIT_HISTORY visits
KeepLastVisits(history) ==
  IF Len(history) > MAX_VISIT_HISTORY
    THEN SubSeq(history, Len(history) - MAX_VISIT_HISTORY + 1, Len(history))
    ELSE history

\* enhancedMemory.js:127-141
PushVisit(history, visit) == KeepLastVisits(Append(history, visit))

\* enhancedMemory.js:143-154 (the lifetimeStats part)
LifetimeStatsAfter(stats, visit) ==
  LET s1 == [stats EXCEPT !.totalVisits = @ + 1]
  IN  IF visit.decision = "Buy"
        THEN [s1 EXCEPT !.totalBuys = @ + 1, !.totalSpent = @ + visit.price]
      ELSE IF visit.decision = "Skip"
        THEN [s1 EXCEPT !.totalSkips = @ + 1]
      ELSE IF visit.decision = "Switch"
        THEN [s1 EXCEPT !.totalSwitches = @ + 1]
      ELSE s1

\* enhancedMemory.js:150-154 (the competitorKnowledge part)
CompetitorAfter(ck, visit) ==
  IF visit.decision = "Switch"
    THEN [ck EXCEPT !.discoveredCompetitor = TRUE, !.lastSwitchTurn = visit.turn]
    ELSE ck

\* mutant of InitialPriceAfter: the anchor follows the latest price
InitialPriceOverwritten(initialPrice, price) == price

\* enhancedMemory.js:157-159: the anchor is written only while it is null
InitialPriceAfter(initialPrice, price) ==
  IF initialPrice = Null THEN price ELSE initialPrice

\* enhancedMemory.js:156-168
PriceAnchoringAfter(pa, visit) ==
  [ initialPrice |-> InitialPriceAfter(pa.initialPrice, visit.price),
    lastPricePaid |-> IF visit.decision = "Buy" THEN visit.price ELSE pa.lastPricePaid,
    lowestPriceSeen |->
      IF pa.lowestPriceSeen = Null \/ visit.price < pa.lowestPriceSeen
        THEN visit.price ELSE pa.lowestPriceSeen,
    highestPriceSeen |->
      IF pa.highestPriceSeen = Null \/ visit.price > pa.highestPriceSeen
        THEN visit.price ELSE pa.highestPriceSeen ]

\* enhancedMemory.js:171-172
isNegative(emotion) == emotion \in NegativeEmotions
isPositive(emotion) == emotion \in PositiveEmotions

\* enhancedMemory.js:180: three consecutive frustrations end the relationship
GoneThreshold == 3
\* enhancedMemory.js:185: the second consecutive frustration gives the last chance
LastChanceAt == 2
\* enhancedMemory.js:202: five consecutive buys make a routine
RoutineThreshold == 5
\* enhancedMemory.js:212: a positive visit of this quality or better can be the peak
PeakQuality == 8

\* enhancedMemory.js:174-209, the counters consecutiveFrustrations and consecutiveBuys
ConsecutiveFrustrationsAfter(cf, visit) ==
  IF isNegative(visit.emotion) THEN cf + 1 ELSE 0

\* mutant of ConsecutiveBuysAfter: every visit that is no positive Buy ends
\* the run of buys
ConsecutiveBuysEndedByNeutral(cb, visit) ==
  IF isPositive(visit.emotion) /\ visit.decision = "Buy" THEN cb + 1 ELSE 0

ConsecutiveBuysAfter(cb, visit) ==
  IF isNegative(visit.emotion) THEN 0
  ELSE IF isPositive(visit.emotion) /\ visit.decision = "Buy" THEN cb + 1
  ELSE cb

\* mutant of HasRoutineAfter: the routine formed one buy early
HasRoutineAfterEarly(hasRoutine, cbAfter, visit) ==
  IF isPositive(visit.emotion) /\ visit.decision = "Buy" /\ cbAfter >= RoutineThreshold - 1
    THEN TRUE ELSE hasRoutine

\* enhancedMemory.js:198-205
HasRoutineAfter(hasRoutine, cbAfter, visit) ==
  IF isPositive(visit.emotion) /\ visit.decision = "Buy" /\ cbAfter >= RoutineThreshold
    THEN TRUE ELSE hasRoutine

\* enhancedMemory.js:211-221
PeakExperienceAfter(peak, visit) ==
  IF isPositive(visit.emotion) /\ visit.quality >= PeakQuality
       /\ (peak = NoPeak \/ visit.quality > peak.quality)
    THEN [turn |-> visit.turn, quality |-> visit.quality,
          price |-> visit.price, emotion |-> visit.emotion]
    ELSE peak

\* enhancedMemory.js:170-221 (the experienceTracking part)
ExperienceAfter(et, visit) ==
  LET cb == ConsecutiveBuysAfter(et.consecutiveBuys, visit)
  IN  [ consecutiveFrustrations |->
          ConsecutiveFrustrationsAfter(et.consecutiveFrustrations, visit),
        consecutiveBuys |-> cb,
        peakExperience |-> PeakExperienceAfter(et.peakExperience, visit),
        hasRoutine |-> HasRoutineAfter(et.hasRoutine, cb, visit),
        routineBrokenCount |-> et.routineBrokenCount ]

\* mutant of IsPermanentlyGoneAfter: the flag recomputed from the counter
IsPermanentlyGoneRecomputed(gone, cfAfter, visit) == cfAfter >= GoneThreshold

\* mutant of IsPermanentlyGoneAfter: the flag raised with the last chance
IsPermanentlyGoneEarly(gone, cfAfter, visit) ==
  IF isNegative(visit.emotion) /\ cfAfter >= LastChanceAt THEN TRUE ELSE gone

\* enhancedMemory.js:179-182
IsPermanentlyGoneAfter(gone, cfAfter, visit) ==
  IF isNegative(visit.emotion) /\ cfAfter >= GoneThreshold THEN TRUE ELSE gone

\* mutant of LastChanceAfter: a positive visit leaves the last chance standing
LastChanceNeverCleared(flags, cfAfter, visit) ==
  IF isNegative(visit.emotion) /\ cfAfter = LastChanceAt /\ ~flags.isOnLastChance
    THEN [isOnLastChance |-> TRUE, lastChanceGivenTurn |-> visit.turn]
    ELSE [isOnLastChance |-> flags.isOnLastChance,
          lastChanceGivenTurn |-> flags.lastChanceGivenTurn]

\* enhancedMemory.js:184-188 and 193-196
LastChanceAfter(flags, cfAfter, visit) ==
  IF isNegative(visit.emotion)
    THEN IF cfAfter = LastChanceAt /\ ~flags.isOnLastChance
           THEN [isOnLastChance |-> TRUE, lastChanceGivenTurn |-> visit.turn]
           ELSE [isOnLastChance |-> flags.isOnLastChance,
                 lastChanceGivenTurn |-> flags.lastChanceGivenTurn]
  ELSE IF isPositive(visit.emotion)
    THEN [isOnLastChance |-> FALSE, lastChanceGivenTurn |-> flags.lastChanceGivenTurn]
  ELSE [isOnLastChance |-> flags.isOnLastChance,
        lastChanceGivenTurn |-> flags.lastChanceGivenTurn]

\* enhancedMemory.js:174-209 (the flags part)
FlagsAfter(flags, cfAfter, visit) ==
  LET lc == LastChanceAfter(flags, cfAfter, visit)
  IN  [ isPermanentlyGone |-> IsPermanentlyGoneAfter(flags.isPermanentlyGone, cfAfter, visit),
        isOnLastChance |-> lc.isOnLastChance,
        lastChanceGivenTurn |-> lc.lastChanceGivenTurn ]

\* enhancedMemory.js:170-209 (timesDisappointed, timesDelighted)
EmotionStatsAfter(stats, visit) ==
  IF isNegative(visit.emotion) THEN [stats EXCEPT !.timesDisappointed = @ + 1]
  ELSE IF isPositive(visit.emotion) THEN [stats EXCEPT !.timesDelighted = @ + 1]
  ELSE stats

\* the MemoryState after recordVisit's body, enhancedMemory.js:124-221
StateAfterVisit(state, visit) ==
  LET et == ExperienceAfter(state.experienceTracking, visit)
  IN  [ trust_score |-> state.trust_score,
        visitHistory |-> PushVisit(state.visitHistory, visit),
        priceAnchoring |-> PriceAnchoringAfter(state.priceAnchoring, visit),
        experienceTracking |-> et,
        competitorKnowledge |-> CompetitorAfter(state.competitorKnowledge, visit),
        lifetimeStats |->
          EmotionStatsAfter(LifetimeStatsAfter(state.lifetimeStats, visit), visit),
        flags |-> FlagsAfter(state.flags, et.consecutiveFrustrations, visit) ]

\* the value Not-a-Number
NaN == -999

\* JSON.stringify(enhancedMemoryCache) (enhancedMemory.js:102), as the object
\* the text parses to: numbers, strings, booleans and null are kept, and a
\* number that is NaN is written as null
Stringified(cache) ==
  [q \in DOMAIN cache |->
     IF cache[q].trust_score = NaN
       THEN [cache[q] EXCEPT !.trust_score = Null] ELSE cache[q]]

\* saveEnhancedMemory, enhancedMemory.js:100-106: the whole cache is written;
\* a write that throws is caught and logged, and leaves the file as it was
saveEnhancedMemory(cache) ==
  /\ persisted' = IF writable THEN Stringified(cache) ELSE persisted
  /\ UNCHANGED writable

\* a function that returns nothing
Undefined == [op |-> "void"]

\* what the caller of a function that threw receives
Thrown == [op |-> "throw"]

\* mutant of Caught: the error of a failed write reaches the caller
Uncaught(value) == IF writable THEN value ELSE Thrown

\* what a function that has called saveEnhancedMemory goes on to return: the
\* error of a failed write is caught and logged inside saveEnhancedMemory
\* (enhancedMemory.js:101-105)
Caught(value) == value

\* mutant of recordVisit: the personas whose state equals that of personaId
\* share one object with it
recordVisitShared(personaId, visit) ==
  LET cache == CacheWith(enhancedMemoryCache, personaId)
      after == [q \in DOMAIN cache |->
                  IF cache[q] = cache[personaId]
                    THEN StateAfterVisit(cache[q], visit) ELSE cache[q]]
  IN  /\ enhancedMemoryCache' = after
      /\ saveEnhancedMemory(after)
      /\ ret' = Caught(Undefined)

recordVisit(personaId, visit) ==
  LET cache == CacheWith(enhancedMemoryCache, personaId)
      after == [cache EXCEPT ![personaId] = StateAfterVisit(@, visit)]
  IN  /\ enhancedMemoryCache' = after
      /\ saveEnhancedMemory(after)
      /\ ret' = Caught(Undefined)

---------------------------------------------------------------------------
(* updateTrustWithEmotion, enhancedMemory.js:230-260 *)

\* a name every object inherits from Object.prototype: trustDeltas is an object
\* literal, and trustDeltas[emotion] finds the inherited property
InheritedNames == {"constructor"}

\* the emotion argument: a key of the table, a string that names no property
\* of it (or a missing emotion), or an inherited name
AnyEmotion == Emotions \cup InheritedNames

\* the table trustDeltas, enhancedMemory.js:234-242, read as
\* trustDeltas[emotion] || 0, as a number: the inherited property is a function
\* or an object, truthy, and is no number
trustDeltas(emotion) ==
  CASE emotion = "satisfied" -> 5
    [] emotion = "delighted" -> 10
    [] emotion = "loyal" -> 15
    [] emotion = "neutral" -> 0
    [] emotion = "frustrated" -> -15
    [] emotion = "angry" -> -25
    [] emotion = "betrayed" -> -40
    [] emotion \in InheritedNames -> NaN
    [] OTHER -> 0

\* mutant of AppliedDelta: a positive delta applied whole
AppliedDeltaSymmetric(emotion) == trustDeltas(emotion)

\* enhancedMemory.js:244-249: Math.floor(delta / 3) for a positive delta
\* (delta > 0 is false of what is no number)
AppliedDelta(emotion) ==
  LET delta == trustDeltas(emotion)
  IN  IF delta # NaN /\ delta > 0 THEN delta \div 3 ELSE delta

\* trust_score + delta under Math.min: a sum with what is no number is none
Plus(a, b) == IF a = NaN \/ b = NaN THEN NaN ELSE a + b

\* enhancedMemory.js:251: Math.max(0, Math.min(100, t)); both give NaN for NaN
ClampTrust(t) == IF t = NaN THEN NaN ELSE Max(0, Min(100, t))

\* mutant of TrustAfter: the old score clamped, not the new one
TrustAfterClampFirst(trust, emotion) == Plus(ClampTrust(trust), AppliedDelta(emotion))

\* enhancedMemory.js:244-251
TrustAfter(trust, emotion) == ClampTrust(Plus(trust, AppliedDelta(emotion)))

updateTrustWithEmotion(personaId, emotion) ==
  LET cache == CacheWith(enhancedMemoryCache, personaId)
      after == [cache EXCEPT ![personaId].trust_score = TrustAfter(@, emotion)]
  IN  /\ enhancedMemoryCache' = after
      /\ saveEnhancedMemory(after)
      /\ ret' = Caught([op |-> "updateTrust", trust |-> after[personaId].trust_score])

---------------------------------------------------------------------------
(* calculatePricePerception, enhancedMemory.js:266-304 *)

\* mutant of PerceivedDelta: increases and decreases weighted alike
PerceivedDeltaUnweighted(initialPrice, currentPrice) == currentPrice - initialPrice

\* enhancedMemory.js:280-281: an increase over the anchor counts twice
PerceivedDelta(initialPrice, currentPrice) ==
  LET vsInitial == currentPrice - initialPrice
      lossAversionFactor == IF vsInitial > 0 THEN 2 ELSE 1
  IN  vsInitial * lossAversionFactor

\* enhancedMemory.js:283-294.  With prices in cents, x < initialPrice * 0.05 is
\* 100 * x < 5 * initialPrice, and likewise for 0.2 and 0.1.
Perception(initialPrice, currentPrice) ==
  LET perceivedDelta == PerceivedDelta(initialPrice, currentPrice)
  IN  IF 100 * Abs(perceivedDelta) < 5 * initialPrice THEN "fair"
      ELSE IF 100 * perceivedDelta > 20 * initialPrice THEN "outrageous"
      ELSE IF perceivedDelta > 0 THEN "expensive"
      ELSE IF 100 * perceivedDelta < -(10 * initialPrice) THEN "cheap"
      ELSE "fair"

\* the object returned by calculatePricePerception for a state
PricePerceptionOf(state, currentPrice) ==
  LET pa == state.priceAnchoring
  IN  IF pa.initialPrice = Null
        THEN [perception |-> "unknown", magnitude |-> 0, anchor |-> "none",
              vsInitial |-> Null, vsLast |-> Null, vsLowest |-> Null]
        ELSE [perception |-> Perception(pa.initialPrice, currentPrice),
              magnitude |-> Abs(PerceivedDelta(pa.initialPrice, currentPrice)),
              anchor |-> "initial",
              vsInitial |-> currentPrice - pa.initialPrice,
              vsLast |-> IF pa.lastPricePaid # Null
                           THEN currentPrice - pa.lastPricePaid ELSE 0,
              vsLowest |-> IF pa.lowestPriceSeen # Null
                             THEN currentPrice - pa.lowestPriceSeen ELSE 0]

calculatePricePerception(personaId, currentPrice) ==
  LET cache == CacheWith(enhancedMemoryCache, personaId)
  IN  /\ enhancedMemoryCache' = cache
      /\ ret' = [op |-> "pricePerception", price |-> currentPrice,
                 value |-> PricePerceptionOf(cache[personaId], currentPrice)]
      /\ UNCHANGED <<persisted, writable>>

---------------------------------------------------------------------------
(* checkHabitBreakage, enhancedMemory.js:309-333 *)

\* enhancedMemory.js:328
ExtraFrustration == 20

\* mutant of HabitBroken: any perception other than fair breaks the routine
HabitBrokenUnlessFair(state, currentPrice) ==
  /\ state.experienceTracking.hasRoutine
  /\ PricePerceptionOf(state, currentPrice).perception # "fair"

\* enhancedMemory.js:312-318
HabitBroken(state, currentPrice) ==
  /\ state.experienceTracking.hasRoutine
  /\ PricePerceptionOf(state, currentPrice).perception \in {"expensive", "outrageous"}

\* mutant of StateAfterHabitBreak: the break also ends the run of buys
StateAfterHabitBreakResettingBuys(state) ==
  [state EXCEPT !.experienceTracking.routineBrokenCount = @ + 1,
                !.experienceTracking.hasRoutine = FALSE,
                !.experienceTracking.consecutiveBuys = 0]

\* enhancedMemory.js:320-322
StateAfterHabitBreak(state) ==
  [state EXCEPT !.experienceTracking.routineBrokenCount = @ + 1,
                !.experienceTracking.hasRoutine = FALSE]

checkHabitBreakage(personaId, currentPrice) ==
  LET cache == CacheWith(enhancedMemoryCache, personaId)
      after == [cache EXCEPT ![personaId] = StateAfterHabitBreak(@)]
  IN  IF HabitBroken(cache[personaId], currentPrice)
        THEN /\ enhancedMemoryCache' = after
             /\ saveEnhancedMemory(after)
             /\ ret' = Caught([op |-> "checkHabitBreakage", price |-> currentPrice,
                               habitBroken |-> TRUE,
                               routineBrokenCount |->
                                 after[personaId].experienceTracking.routineBrokenCount,
                               extraFrustration |-> ExtraFrustration])
        ELSE /\ enhancedMemoryCache' = cache
             /\ ret' = [op |-> "checkHabitBreakage", price |-> currentPrice,
                        habitBroken |-> FALSE,
                        routineBrokenCount |-> Null, extraFrustration |-> Null]
             /\ UNCHANGED <<persisted, writable>>

---------------------------------------------------------------------------
(* getDecisionContext, enhancedMemory.js:338-359 *)

\* visitHistory.slice(-3)
LastThree(history) ==
  IF Len(history) > 3 THEN SubSeq(history, Len(history) - 2, Len(history)) ELSE history

DecisionContextOf(state, currentPrice) ==
  [ trust |-> state.trust_score,
    visitHistory |-> LastThree(state.visitHistory),
    pricePerception |-> PricePerceptionOf(state, currentPrice),
    habitStatus |->
      [ hasRoutine |-> state.experienceTracking.hasRoutine,
        consecutiveBuys |-> state.experienceTracking.consecutiveBuys,
        routineBrokenCount |-> state.experienceTracking.routineBrokenCount ],
    frustrationStatus |->
      [ consecutiveFrustrations |-> state.experienceTracking.consecutiveFrustrations,
        isOnLastChance |-> state.flags.isOnLastChance,
        isPermanentlyGone |-> state.flags.isPermanentlyGone ],
    peakExperience |-> state.experienceTracking.peakExperience,
    competitorKnowledge |-> state.competitorKnowledge,
    lifetimeStats |-> state.lifetimeStats ]

getDecisionContext(personaId, currentPrice) ==
  LET cache == CacheWith(enhancedMemoryCache, personaId)
  IN  /\ enhancedMemoryCache' = cache
      /\ ret' = [op |-> "decisionContext", price |-> currentPrice,
                 value |-> DecisionContextOf(cache[personaId], currentPrice)]
      /\ UNCHANGED <<persisted, writable>>

---------------------------------------------------------------------------
(* resetAllEnhancedMemory, enhancedMemory.js:364-371 *)

\* mutant of resetAllEnhancedMemory: the flags of a persona survive the reset
resetAllKeepingFlags ==
  LET after == [i \in PersonaIds |->
                  [DEFAULT_ENHANCED_STATE EXCEPT !.flags = enhancedMemoryCache[i].flags]]
  IN  /\ enhancedMemoryCache' = after
      /\ saveEnhancedMemory(after)
      /\ ret' = Caught([op |-> "resetAll"])

\* the cache is replaced by a new object holding a copy of the default state
\* for each of the ids 1..20; the function returns nothing
resetAllEnhancedMemory ==
  LET after == [i \in PersonaIds |-> DEFAULT_ENHANCED_STATE]
  IN  /\ enhancedMemoryCache' = after
      /\ saveEnhancedMemory(after)
      /\ ret' = Caught([op |-> "resetAll"])

---------------------------------------------------------------------------
(* calculateMarketMomentum, batchProcessor.js:21-37.  A ratio a / b of two   *)
(* counts is kept as the pair [num |-> a, den |-> b]: for the totals of this *)
(* model the floating-point quotient compares with 0.3, 0.5, 0.55, 0.6, 0.7, *)
(* 0.8 exactly as the fraction compares with 30%, ..., 80%.                  *)

Ratio(a, b) == [num |-> a, den |-> b]
\* the number 0 of the empty result set (batchProcessor.js:24)
Zero == Ratio(0, 1)

\* results.filter(r => r.decision === d).length
CountDecision(results, d) ==
  Cardinality({i \in 1..Len(results) : results[i].decision = d})

\* mutant of MoodOf: a half of the population leaving is already a mass exit
MoodOfInclusive(buyCount, skipCount, switchCount, total) ==
  IF 10 * (skipCount + switchCount) >= 5 * total THEN "mass_exit"
  ELSE IF 10 * buyCount > 6 * total THEN "mass_adoption"
  ELSE "neutral"

\* batchProcessor.js:35: skip + switch > total * 0.5, buy > total * 0.6
MoodOf(buyCount, skipCount, switchCount, total) ==
  IF 10 * (skipCount + switchCount) > 5 * total THEN "mass_exit"
  ELSE IF 10 * buyCount > 6 * total THEN "mass_adoption"
  ELSE "neutral"

\* the object calculateMarketMomentum returns; the one of the empty list has
\* no mood property, written mood "undefined"
calculateMarketMomentum(results) ==
  LET total == Len(results)
      buyCount == CountDecision(results, "Buy")
      skipCount == CountDecision(results, "Skip")
      switchCount == CountDecision(results, "Switch")
  IN  IF total = 0
        THEN [leaving |-> Zero, staying |-> Zero, switching |-> Zero,
              mood |-> "undefined"]
        ELSE [leaving |-> Ratio(skipCount + switchCount, total),
              staying |-> Ratio(buyCount, total),
              switching |-> Ratio(switchCount, total),
              mood |-> MoodOf(buyCount, skipCount, switchCount, total)]

---------------------------------------------------------------------------
(* getMarketMoodLabel, advancedSimulate.js:237-246 *)

\* x >= percent / 100
AtLeast(x, percent) == 100 * x.num >= percent * x.den

\* mutant of getMarketMoodLabel: the rules on staying tried before the rules
\* on leaving
MoodLabelStayingFirst(momentum) ==
  IF AtLeast(momentum.staying, 80) THEN "Viral Hype"
  ELSE IF AtLeast(momentum.staying, 60) THEN "FOMO Wave"
  ELSE IF AtLeast(momentum.staying, 55) THEN "Optimistic"
  ELSE IF AtLeast(momentum.leaving, 70) THEN "Brand Crisis"
  ELSE IF AtLeast(momentum.leaving, 50) THEN "Mass Exodus"
  ELSE IF AtLeast(momentum.leaving, 30) THEN "Resentful"
  ELSE IF AtLeast(momentum.leaving, 55) THEN "Skeptical"
  ELSE "Balanced"

getMarketMoodLabel(momentum) ==
  IF AtLeast(momentum.leaving, 70) THEN "Brand Crisis"
  ELSE IF AtLeast(momentum.leaving, 50) THEN "Mass Exodus"
  ELSE IF AtLeast(momentum.leaving, 30) THEN "Resentful"
  ELSE IF AtLeast(momentum.staying, 80) THEN "Viral Hype"
  ELSE IF AtLeast(momentum.staying, 60) THEN "FOMO Wave"
  ELSE IF AtLeast(momentum.staying, 55) THEN "Optimistic"
  ELSE IF AtLeast(momentum.leaving, 55) THEN "Skeptical"
  ELSE "Balanced"

---------------------------------------------------------------------------
(* applySocialPressure, batchProcessor.js:42-58, in exact arithmetic on      *)
(* ratios: the sensitivities, weights and momenta of this model are          *)
(* fractions of small integers, which the comparisons with 0.3 and 0.6       *)
(* order as the floating-point values are ordered                            *)

One == Ratio(1, 1)

\* a ratio in lowest terms
RECURSIVE GCD(_, _)
GCD(a, b) == IF b = 0 THEN a ELSE GCD(b, a % b)
Reduced(x) ==
  LET g == GCD(Abs(x.num), x.den)
  IN  Ratio(x.num \div g, x.den \div g)

Sum(x, y) == Reduced(Ratio(x.num * y.den + y.num * x.den, x.den * y.den))
Difference(x, y) == Reduced(Ratio(x.num * y.den - y.num * x.den, x.den * y.den))
Product(x, y) == Reduced(Ratio(x.num * y.num, x.den * y.den))
Greater(x, y) == x.num * y.den > y.num * x.den
Same(x, y) == x.num * y.den = y.num * x.den
MinRatio(x, y) == IF Greater(x, y) THEN y ELSE x
MaxRatio(x, y) == IF Greater(x, y) THEN x ELSE y

\* mutant of applySocialPressure: the test for mass adoption made first
applySocialPressureFomoFirst(persona, baseSensitivity, momentum) ==
  LET socialWeight == persona.socialInfluenceWeight
  IN  IF Greater(momentum.staying, Ratio(6, 10))
        THEN MaxRatio(Zero, Difference(baseSensitivity,
               Product(Product(Difference(momentum.staying, Ratio(6, 10)), socialWeight),
                       Ratio(3, 10))))
      ELSE IF Greater(momentum.leaving, Ratio(3, 10))
        THEN MinRatio(One, Sum(baseSensitivity,
               Product(Product(Difference(momentum.leaving, Ratio(3, 10)), socialWeight),
                       Ratio(5, 10))))
      ELSE baseSensitivity

applySocialPressure(persona, baseSensitivity, momentum) ==
  LET socialWeight == persona.socialInfluenceWeight
  IN  IF Greater(momentum.leaving, Ratio(3, 10))
        THEN MinRatio(One, Sum(baseSensitivity,
               Product(Product(Difference(momentum.leaving, Ratio(3, 10)), socialWeight),
                       Ratio(5, 10))))
      ELSE IF Greater(momentum.staying, Ratio(6, 10))
        THEN MaxRatio(Zero, Difference(baseSensitivity,
               Product(Product(Difference(momentum.staying, Ratio(6, 10)), socialWeight),
                       Ratio(3, 10))))
      ELSE baseSensitivity

---------------------------------------------------------------------------
(* The decision oracle and simulatePersona, oProvider.js:104-149 with        *)
(* runAgent, oThreadManager.js:62-138                                        *)

\* what the oracle call of one persona comes to: a throw anywhere under
\* simulatePersona's try (thread creation, transport, a failed or timed-out
\* run, no message), a text that is not JSON, or a JSON object
Throws == [kind |-> "throws", decision |-> "none", emotion |-> "none"]
Unparseable == [kind |-> "unparseable", decision |-> "none", emotion |-> "none"]
Json(decision, emotion) == [kind |-> "json", decision |-> decision, emotion |-> emotion]
NoAnswer == [kind |-> "none", decision |-> "none", emotion |-> "none"]

\* oThreadManager.js:118-137: the object runAgent returns for a completed run;
\* a text that does not parse becomes the fallback decision
runAgent(answer) ==
  IF answer.kind = "unparseable"
    THEN [decision |-> "Skip", emotion |-> "neutral"]
    ELSE [decision |-> answer.decision, emotion |-> answer.emotion]

\* the decision taken as answered, without the check
ValidDecisionUnchecked(decision) == decision

\* oProvider.js:118-120
ValidDecision(decision) ==
  IF decision \in {"Buy", "Skip", "Switch"} THEN decision ELSE "Skip"

\* the error property of the result: set in the catch block only
\* (oProvider.js:136-146), absent (falsy) in the result of line 122
ErrorFlag(answer) == answer.kind = "throws"

\* the result of simulatePersona; trust is context.trust, the score read when
\* the result is built (oProvider.js:131), absent from the result of the catch
simulatePersona(personaId, answer, cache) ==
  IF answer.kind = "throws"
    THEN [personaId |-> personaId, decision |-> "Skip", emotion |-> "neutral",
          error |-> ErrorFlag(answer), trust |-> Null]
    ELSE [personaId |-> personaId,
          decision |-> ValidDecision(runAgent(answer).decision),
          emotion |-> runAgent(answer).emotion,
          error |-> ErrorFlag(answer),
          trust |-> getEnhancedMemoryState(cache, personaId).trust_score]

\* the result slot of a call that has not settled
NoResult ==
  [personaId |-> Null, decision |-> "none", emotion |-> "none",
   error |-> FALSE, trust |-> Null]

---------------------------------------------------------------------------
(* processBatchedSimulation, batchProcessor.js:64-188 *)

\* batchProcessor.js:16
BATCH_SIZE == 3

\* OPENAI_PERSONAS (batchProcessor.js:74): the personas of the catalog
Catalog == 1..CatalogSize

\* the orders [...personasToRun].sort(() => Math.random() - 0.5) can give
shuffles ==
  {f \in [1..CatalogSize -> Catalog] : \A i, j \in 1..CatalogSize : f[i] = f[j] => i = j}

\* let currentMomentum = null (batchProcessor.js:77)
NullMomentum ==
  [leaving |-> Zero, staying |-> Zero, switching |-> Zero, mood |-> "null"]

\* mutant of batchCount: the quotient rounded down
batchCountFloor(n) == n \div BATCH_SIZE

\* Math.ceil(shuffledPersonas.length / BATCH_SIZE)
batchCount(n) == (n + BATCH_SIZE - 1) \div BATCH_SIZE

\* the positions of shuffledPersonas.slice(batchStart, batchEnd), counted from 1
batchPositions(batchIndex, n) ==
  LET batchStart == batchIndex * BATCH_SIZE
      batchEnd == Min(batchStart + BATCH_SIZE, n)
  IN  (batchStart + 1)..batchEnd

\* an oracle call before its batch is reached
PendingCall == [state |-> "pending", momentum |-> NullMomentum,
                answer |-> NoAnswer, result |-> NoResult]

\* mutant of StartBatch: the callbacks are not given the momentum
StartBatchWithoutMomentum(calls, batchIndex, momentum) ==
  [i \in DOMAIN calls |->
     IF i \in batchPositions(batchIndex, Len(calls))
       THEN [calls[i] EXCEPT !.state = "running"]
       ELSE calls[i]]

\* batchPersonas.map(async ...) (batchProcessor.js:93-114): every callback of
\* the batch runs up to its first await with the momentum of that moment
StartBatch(calls, batchIndex, momentum) ==
  [i \in DOMAIN calls |->
     IF i \in batchPositions(batchIndex, Len(calls))
       THEN [calls[i] EXCEPT !.state = "running", !.momentum = momentum]
       ELSE calls[i]]

\* mutant of BatchSettled: the batch counts as complete with its first result
BatchSettledAny(calls, batchIndex) ==
  \E i \in batchPositions(batchIndex, Len(calls)) : calls[i].state = "settled"

\* await Promise.all(batchPromises) (batchProcessor.js:117)
BatchSettled(calls, batchIndex) ==
  \A i \in batchPositions(batchIndex, Len(calls)) : calls[i].state = "settled"

\* batchResults, in the order of the batch
BatchResults(calls, batchIndex) ==
  LET batchStart == batchIndex * BATCH_SIZE
  IN  [k \in 1..Cardinality(batchPositions(batchIndex, Len(calls))) |->
         calls[batchStart + k].result]

\* the frame of an invocation that has not been made
IdleTurn ==
  [pc |-> "idle", price |-> Null, quality |-> Null, turnNumber |-> Null,
   shuffledPersonas |-> << >>, batchIndex |-> 0, calls |-> << >>,
   allResults |-> << >>, currentMomentum |-> NullMomentum]

\* the cache after getEnhancedMemoryState on each of the personas ids
CacheWithAll(cache, ids) ==
  [q \in (DOMAIN cache) \cup ids |->
     IF q \in DOMAIN cache THEN cache[q] ELSE DEFAULT_ENHANCED_STATE]

\* the personas at the positions of a batch
BatchPersonas(shuffledPersonas, batchIndex) ==
  {shuffledPersonas[i] : i \in batchPositions(batchIndex, Len(shuffledPersonas))}

\* mutant of LoopContinues: the loop stops one batch short
LoopEndsEarly(batchIndex, count) == batchIndex < count - 1

\* the loop condition of batchProcessor.js:85
LoopContinues(batchIndex, count) == batchIndex < count

\* mutant of ShouldRecord: the error flag not looked at
ShouldRecordAll(result) == TRUE

\* batchProcessor.js:128
ShouldRecord(result) == ~result.error

\* mutant of CacheAfterRecordVisit: the habit is checked at the visit's price
\* before the visit is recorded
CacheAfterRecordVisitCheckingHabit(cache, personaId, visit) ==
  LET with == CacheWith(cache, personaId)
      checked == IF HabitBroken(with[personaId], visit.price)
                   THEN StateAfterHabitBreak(with[personaId]) ELSE with[personaId]
  IN  [with EXCEPT ![personaId] = StateAfterVisit(checked, visit)]

\* the caches after recordVisit and after updateTrustWithEmotion on a persona
CacheAfterRecordVisit(cache, personaId, visit) ==
  [CacheWith(cache, personaId) EXCEPT ![personaId] = StateAfterVisit(@, visit)]
CacheAfterUpdateTrust(cache, personaId, emotion) ==
  [CacheWith(cache, personaId) EXCEPT ![personaId].trust_score = TrustAfter(@, emotion)]

\* the visit recorded for a result (batchProcessor.js:129-136)
VisitOf(result, frame) ==
  Visit(frame.turnNumber, result.decision, frame.price, frame.quality, result.emotion)

\* the cache after the loop of batchProcessor.js:127-140 over results
RECURSIVE CacheAfterResults(_, _, _)
CacheAfterResults(cache, results, frame) ==
  IF results = << >> THEN cache
  ELSE LET result == Head(results)
           visited == CacheAfterRecordVisit(cache, result.personaId, VisitOf(result, frame))
           after == IF ShouldRecord(result)
                      THEN CacheAfterUpdateTrust(visited, result.personaId, result.emotion)
                      ELSE cache
       IN  CacheAfterResults(after, Tail(results), frame)

\* the results the loop of batchProcessor.js:127-140 writes for persona p
RECURSIVE RecordedFor(_, _)
RecordedFor(results, p) ==
  IF results = << >> THEN << >>
  ELSE (IF ShouldRecord(Head(results)) /\ Head(results).personaId = p
          THEN <<Head(results)>> ELSE << >>) \o RecordedFor(Tail(results), p)

\* the history variables after that loop
VisitLogAfterResults(log, results, frame) ==
  [p \in DOMAIN log |->
     log[p] \o [k \in DOMAIN RecordedFor(results, p) |->
                  VisitOf(RecordedFor(results, p)[k], frame)]]
TrustLogAfterResults(log, results) ==
  [p \in DOMAIN log |->
     log[p] \o [k \in DOMAIN RecordedFor(results, p) |-> RecordedFor(results, p)[k].emotion]]

\* the bundle returned at batchProcessor.js:164-187 (rates, archetype breakdown
\* and metadata left out)
TurnResult(allResults, frame) ==
  [op |-> "runTurn", success |-> TRUE, turnNumber |-> frame.turnNumber,
   results |-> allResults,
   summary |-> [totalPersonas |-> Len(allResults),
                buyCount |-> CountDecision(allResults, "Buy"),
                skipCount |-> CountDecision(allResults, "Skip"),
                switchCount |-> CountDecision(allResults, "Switch")],
   momentum |-> calculateMarketMomentum(allResults)]

\* config.ai.provider (unnamed/part_000:12): a provider getProvider can
\* construct, and a name it does not know
ProviderTypes == {"openai", "unknown"}

\* the call up to its first await: getProvider, the shuffle and the callbacks
\* of the first batch (batchProcessor.js:64-117).  The catalog is not empty.
processBatchedSimulation(price, quality, turnNumber, providerType, shuffledPersonas) ==
  /\ turn.pc = "idle"
  /\ IF providerType = "openai"
       THEN /\ turn' = [pc |-> "awaiting", price |-> price, quality |-> quality,
                        turnNumber |-> turnNumber,
                        shuffledPersonas |-> shuffledPersonas, batchIndex |-> 0,
                        calls |-> StartBatch([i \in DOMAIN shuffledPersonas |-> PendingCall],
                                             0, NullMomentum),
                        allResults |-> << >>, currentMomentum |-> NullMomentum]
            /\ enhancedMemoryCache' =
                 CacheWithAll(enhancedMemoryCache, BatchPersonas(shuffledPersonas, 0))
            /\ UNCHANGED ret
       ELSE /\ turn' = [IdleTurn EXCEPT !.pc = "thrown"]
            /\ ret' = Thrown
            /\ UNCHANGED enhancedMemoryCache
  /\ UNCHANGED <<persisted, writable>>

\* the oracle call at position i settles: the rest of simulatePersona
OracleSettles(i, answer) ==
  /\ i \in DOMAIN turn.calls
  /\ turn.calls[i].state = "running"
  /\ LET personaId == turn.shuffledPersonas[i]
         cache == CacheWith(enhancedMemoryCache, personaId)
     IN  /\ turn' = [turn EXCEPT !.calls[i] =
                       [@ EXCEPT !.state = "settled", !.answer = answer,
                                 !.result = simulatePersona(personaId, answer, cache)]]
         /\ enhancedMemoryCache' = cache
  /\ UNCHANGED <<persisted, writable, ret>>

\* Promise.all has resolved and another batch follows (batchProcessor.js:117-124,
\* 85-114): results accumulated, momentum recomputed, next callbacks started
NextBatch ==
  LET allResults == turn.allResults \o BatchResults(turn.calls, turn.batchIndex)
      momentum == calculateMarketMomentum(allResults)
  IN  /\ turn.pc = "awaiting"
      /\ BatchSettled(turn.calls, turn.batchIndex)
      /\ LoopContinues(turn.batchIndex + 1, batchCount(Len(turn.shuffledPersonas)))
      /\ turn' = [turn EXCEPT !.allResults = allResults,
                              !.currentMomentum = momentum,
                              !.batchIndex = @ + 1,
                              !.calls = StartBatch(@, turn.batchIndex + 1, momentum)]
      /\ enhancedMemoryCache' =
           CacheWithAll(enhancedMemoryCache,
                        BatchPersonas(turn.shuffledPersonas, turn.batchIndex + 1))
      /\ UNCHANGED <<persisted, writable, ret>>

\* Promise.all has resolved for the last batch (batchProcessor.js:117-187):
\* the memory writes, the final momentum and the return
Finalize ==
  LET allResults == turn.allResults \o BatchResults(turn.calls, turn.batchIndex)
      after == CacheAfterResults(enhancedMemoryCache, allResults, turn)
  IN  /\ turn.pc = "awaiting"
      /\ BatchSettled(turn.calls, turn.batchIndex)
      /\ ~LoopContinues(turn.batchIndex + 1, batchCount(Len(turn.shuffledPersonas)))
      /\ turn' = [turn EXCEPT !.pc = "returned", !.allResults = allResults,
                              !.currentMomentum = calculateMarketMomentum(allResults),
                              !.batchIndex = @ + 1]
      /\ enhancedMemoryCache' = after
      /\ IF \E k \in DOMAIN allResults : ShouldRecord(allResults[k])
           THEN /\ saveEnhancedMemory(after)
                /\ ret' = Caught(TurnResult(allResults, turn))
           ELSE /\ UNCHANGED <<persisted, writable>>
                /\ ret' = TurnResult(allResults, turn)

---------------------------------------------------------------------------
(* The legacy persona memory store, personaMemory.js.  A state of the cache  *)
(* holds its trust score and two references: { ...DEFAULT_MEMORY_STATE }     *)
(* copies the references of the default state, not the array and the         *)
(* object they point to                                                      *)

\* the reference of the array and of the object of DEFAULT_MEMORY_STATE
\* itself; the reference p is the one of persona p's own array or object
DefaultRef == 0

\* personaMemory.js:118: the memories kept
MemoryKept == 10

\* personaMemory.js:22-28
NoStats ==
  [total_simulations |-> 0, total_buys |-> 0, total_skips |-> 0,
   times_disappointed |-> 0, times_delighted |-> 0]

\* personaMemory.js:19-29
DEFAULT_MEMORY_STATE ==
  [trust_score |-> 100, memory |-> DefaultRef, lifetime_stats |-> DefaultRef]

\* the heap when the module is loaded
FreshHeap ==
  [memory |-> [r \in {DefaultRef} |-> << >>],
   lifetime_stats |-> [r \in {DefaultRef} |-> NoStats]]

\* the state of persona p as a reader of the cache sees it
Seen(cache, objects, p) ==
  [trust_score |-> cache[p].trust_score,
   memory |-> objects.memory[cache[p].memory],
   lifetime_stats |-> objects.lifetime_stats[cache[p].lifetime_stats]]

\* JSON.stringify(memoryCache) (personaMemory.js:76)
LegacyStringified(cache, objects) == [p \in DOMAIN cache |-> Seen(cache, objects, p)]

\* personaMemory.js:87-92: the cache with a state for personaId
LegacyCacheWith(cache, personaId) ==
  [q \in (DOMAIN cache) \cup {personaId} |->
     IF q \in DOMAIN cache THEN cache[q] ELSE DEFAULT_MEMORY_STATE]

\* f with value v at argument x, x added to its domain if new
Stored(f, x, v) == [y \in (DOMAIN f) \cup {x} |-> IF y = x THEN v ELSE f[y]]

\* the cache and the heap after state.memory.push(event) and the slice of
\* personaMemory.js:118-120 (159-161): the push changes the array the state
\* refers to, the slice gives the state an array of its own
Remembered(cache, objects, personaId, event) ==
  LET ref == cache[personaId].memory
      pushed == Append(objects.memory[ref], event)
      arrays == [objects.memory EXCEPT ![ref] = pushed]
  IN  IF Len(pushed) > MemoryKept
        THEN [cache |-> [cache EXCEPT ![personaId].memory = personaId],
              objects |-> [objects EXCEPT !.memory =
                             Stored(arrays, personaId,
                                    SubSeq(pushed, Len(pushed) - MemoryKept + 1,
                                           Len(pushed)))]]
        ELSE [cache |-> cache, objects |-> [objects EXCEPT !.memory = arrays]]

\* personaMemory.js:100-131
updateTrustScore(personaId, delta) ==
  LET cache == LegacyCacheWith(memoryCache, personaId)
      oldScore == cache[personaId].trust_score
      newScore == Max(0, Min(100, oldScore + delta))
      scored == [cache EXCEPT ![personaId].trust_score = newScore]
      event == [event_type |-> IF delta < 0 THEN "trust_loss" ELSE "trust_gain",
                trust_change |-> delta, old_trust |-> oldScore, new_trust |-> newScore]
      after == Remembered(scored, heap, personaId, event)
      stats == after.cache[personaId].lifetime_stats
      objects ==
        IF delta < 0
          THEN [after.objects EXCEPT !.lifetime_stats[stats].times_disappointed = @ + 1]
        ELSE IF delta > 0
          THEN [after.objects EXCEPT !.lifetime_stats[stats].times_delighted = @ + 1]
        ELSE after.objects
  IN  /\ memoryCache' = after.cache
      /\ heap' = objects
      /\ memoryFile' = LegacyStringified(after.cache, objects)
      /\ ret' = [op |-> "updateTrustScore", personaId |-> personaId, value |-> newScore]

\* personaMemory.js:140-164
recordDecision(personaId, didBuy, price) ==
  LET cache == LegacyCacheWith(memoryCache, personaId)
      stats == cache[personaId].lifetime_stats
      counted ==
        [heap EXCEPT !.lifetime_stats[stats] =
           [@ EXCEPT !.total_simulations = @ + 1,
                     !.total_buys = IF didBuy THEN @ + 1 ELSE @,
                     !.total_skips = IF didBuy THEN @ ELSE @ + 1]]
      event == [event_type |-> "purchase_decision",
                decision |-> IF didBuy THEN "BUY" ELSE "SKIP", price |-> price]
      after == Remembered(cache, counted, personaId, event)
  IN  /\ memoryCache' = after.cache
      /\ heap' = after.objects
      /\ memoryFile' = LegacyStringified(after.cache, after.objects)
      /\ ret' = [op |-> "recordDecision", personaId |-> personaId]

\* personaMemory.js:183
sensitivityLevels ==
  <<"none", "very-low", "low", "low-medium", "medium", "medium-high", "high", "very-high">>

\* Array.prototype.indexOf, positions counted from 0: -1 if x is no element
indexOf(levels, x) ==
  IF \E i \in DOMAIN levels : levels[i] = x
    THEN (CHOOSE i \in DOMAIN levels : levels[i] = x) - 1
    ELSE -1

\* levels[index], positions counted from 0: undefined outside the array
ElementAt(levels, index) ==
  IF index + 1 \in DOMAIN levels THEN levels[index + 1] ELSE "undefined"

\* personaMemory.js:186-191
TrustModifier(trustScore) == IF trustScore < 30 THEN 2 ELSE IF trustScore < 60 THEN 1 ELSE 0

\* personaMemory.js:174-202; getMemoryState creates the state of an unknown
\* persona and saves nothing
applyTrustModifier(personaId, baseSensitivity) ==
  LET cache == LegacyCacheWith(memoryCache, personaId)
      trustScore == cache[personaId].trust_score
      currentIndex == indexOf(sensitivityLevels, baseSensitivity)
      modifier == TrustModifier(trustScore)
      newIndex == Min(currentIndex + modifier, Len(sensitivityLevels) - 1)
  IN  /\ memoryCache' = cache
      /\ ret' = [op |-> "applyTrustModifier",
                 adjustedSensitivity |-> ElementAt(sensitivityLevels, newIndex),
                 trustModifier |-> modifier, trustScore |-> trustScore,
                 baseSensitivity |-> baseSensitivity]
      /\ UNCHANGED <<heap, memoryFile>>

\* personaMemory.js:230-237
resetAllMemory ==
  LET cache == [i \in PersonaIds |-> DEFAULT_MEMORY_STATE]
  IN  /\ memoryCache' = cache
      /\ memoryFile' = LegacyStringified(cache, heap)
      /\ ret' = [op |-> "resetAllMemory"]
      /\ UNCHANGED heap

\* initializeMemory with no memory file (personaMemory.js:52-59, and the
\* fallback of lines 61-68)
InitLegacyFresh ==
  /\ memoryCache = [i \in PersonaIds |-> DEFAULT_MEMORY_STATE]
  /\ heap = FreshHeap
  /\ memoryFile = LegacyStringified(memoryCache, heap)

\* the memories of a persona that made MemoryKept decisions
KeptDecisions ==
  [k \in 1..MemoryKept |-> [event_type |-> "purchase_decision", decision |-> "BUY",
                            price |-> 500]]

\* initializeMemory with a memory file (personaMemory.js:48-51): JSON.parse
\* gives every state an array and an object of its own.  The file is the one
\* saved after MemoryKept decisions of the first persona.
InitLegacyLoaded ==
  /\ memoryCache = [i \in PersonaIds |->
                      [trust_score |-> 100, memory |-> i, lifetime_stats |-> i]]
  /\ heap =
       [memory |-> [r \in {DefaultRef} \cup PersonaIds |->
                      IF r = Focus THEN KeptDecisions ELSE << >>],
        lifetime_stats |-> [r \in {DefaultRef} \cup PersonaIds |->
                              IF r = Focus
                                THEN [NoStats EXCEPT !.total_simulations = MemoryKept,
                                                     !.total_buys = MemoryKept]
                                ELSE NoStats]]
  /\ memoryFile = LegacyStringified(memoryCache, heap)

---------------------------------------------------------------------------
(* The thread manager, oThreadManager.js:10-39.  An invocation of            *)
(* getOrCreateThread runs up to its await of threads.create, and from the    *)
(* answer of the remote service to its return                                *)

\* the invocations of getOrCreateThread
ThreadCallers == 1..MaxThreadCalls

\* an invocation that has not been made
NoThreadCall == [pc |-> "idle", personaId |-> Null, value |-> Null]

\* new Map() (oThreadManager.js:12)
NoThreads == [p \in {} |-> Null]

\* threadMap.has(personaId) (oThreadManager.js:21)
ThreadKnown(personaId) == personaId \in DOMAIN threadMap

\* oThreadManager.js:19-27: the thread of the map is returned, or the
\* invocation awaits the creation of one
getOrCreateThread(c, personaId) ==
  /\ threadCalls[c].pc = "idle"
  /\ ThreadKnown(personaId)
  /\ threadCalls' = [threadCalls EXCEPT ![c] =
                       [pc |-> "returned", personaId |-> personaId,
                        value |-> threadMap[personaId]]]
  /\ UNCHANGED <<threadMap, remoteThreads>>

\* oThreadManager.js:26-27: no thread in the map, threads.create is called
ThreadRequested(c, personaId) ==
  /\ threadCalls[c].pc = "idle"
  /\ ~ThreadKnown(personaId)
  /\ threadCalls' = [threadCalls EXCEPT ![c] =
                       [pc |-> "creating", personaId |-> personaId, value |-> Null]]
  /\ UNCHANGED <<threadMap, remoteThreads>>

\* oThreadManager.js:27-38: the service has created a thread, which is stored
\* in the map and returned
ThreadCreated(c) ==
  LET id == remoteThreads + 1
      personaId == threadCalls[c].personaId
  IN  /\ threadCalls[c].pc = "creating"
      /\ remoteThreads' = id
      /\ threadMap' = [p \in (DOMAIN threadMap) \cup {personaId} |->
                         IF p = personaId THEN id ELSE threadMap[p]]
      /\ threadCalls' = [threadCalls EXCEPT ![c].pc = "returned", ![c].value = id]

\* oThreadManager.js:27: threads.create has failed and the invocation throws
ThreadRefused(c) ==
  /\ threadCalls[c].pc = "creating"
  /\ threadCalls' = [threadCalls EXCEPT ![c].pc = "thrown"]
  /\ UNCHANGED <<threadMap, remoteThreads>>

\* a simulatePersona invocation that has not been made
NoAgent ==
  [pc |-> "idle", position |-> Null, status |-> "none", attempts |-> 0, error |-> "none"]

InitOracle ==
  /\ threadMap = NoThreads
  /\ remoteThreads = 0
  /\ threadCalls = [c \in ThreadCallers |-> NoThreadCall]
  /\ agent = NoAgent

\* no request is in flight and no callback has run
NothingSeen == [n \in {} |-> Null]
InitOverlap == flight = IdleTurn /\ seen = NothingSeen

\* the state outside the enhanced memory store when the process has started
InitElsewhere == InitLegacyFresh /\ legacyCalls = 0 /\ InitOracle /\ InitOverlap

---------------------------------------------------------------------------
(* initializeEnhancedMemory, enhancedMemory.js:66-95 *)

\* enhancedMemory.js:82: Math.floor(Math.random() * 60) + 40 is one of 40..99
FreshTrustLow == 40
FreshTrustHigh == 99

\* the initial trust scores the specifications start from: the two ends of the
\* range of a fresh population, and the default 100 of the fallback population
InitTrusts == {FreshTrustLow, FreshTrustHigh, DEFAULT_ENHANCED_STATE.trust_score}

\* the cache after initializeEnhancedMemory with no memory file: every persona
\* is a copy of the default state with its own trust score
FreshCache(trusts) ==
  [i \in PersonaIds |-> [DEFAULT_ENHANCED_STATE EXCEPT !.trust_score = trusts[i]]]

---------------------------------------------------------------------------
(* Initial states *)

EmptyLogs == [i \in PersonaIds |-> << >>]

\* the enhanced memory store after initializeEnhancedMemory, and no turn
InitEnhanced(trusts) ==
  /\ enhancedMemoryCache = FreshCache(trusts)
  /\ persisted = FreshCache(trusts)
  /\ writable = TRUE
  /\ ret = Undefined
  /\ visitLog = EmptyLogs
  /\ trust0 = trusts
  /\ trustLog = EmptyLogs
  /\ turn = IdleTurn

InitWith(trusts) == InitEnhanced(trusts) /\ InitElsewhere

\* a population as initializeEnhancedMemory builds it: default states, with
\* trust scores in 40..100 (here the same score for every persona)
Init == \E t \in InitTrusts : InitWith([i \in PersonaIds |-> t])

\* the default population: the fallback of initializeEnhancedMemory
\* (enhancedMemory.js:90-93) and the result of resetAllEnhancedMemory
InitDefault == InitWith([i \in PersonaIds |-> DEFAULT_ENHANCED_STATE.trust_score])

---------------------------------------------------------------------------
(* SpecTrust: the first MaxTrustCalls updateTrustWithEmotion calls, on any   *)
(* personas and in any order, with the emotions of the calls on each        *)
(* persona kept in trustLog                                                 *)

RECURSIVE SumLen(_, _)
SumLen(logs, ids) ==
  IF ids = {} THEN 0
  ELSE LET i == CHOOSE x \in ids : TRUE
       IN  Len(logs[i]) + SumLen(logs, ids \ {i})

UpdateTrust ==
  \E p \in PersonaIds, e \in AnyEmotion :
    /\ SumLen(trustLog, PersonaIds) < MaxTrustCalls
    /\ updateTrustWithEmotion(p, e)
    /\ trustLog' = [trustLog EXCEPT ![p] = Append(@, e)]
    /\ UNCHANGED <<visitLog, trust0, elsewhere, turn>>

NextTrust == UpdateTrust

SpecTrust == Init /\ [][NextTrust]_vars

\* C1: after any sequence of updateTrustWithEmotion calls (any emotions, any
\* personas, any order) every persona's trust score is within [0,100].
C1_TrustBounds ==
  \A p \in PersonaIds :
    /\ enhancedMemoryCache[p].trust_score >= 0
    /\ enhancedMemoryCache[p].trust_score <= 100


\* every persona starts at 100 and some persona has received exactly
\* betrayed, betrayed, betrayed
ThreeBetrayals(p) ==
  /\ trust0[p] = 100
  /\ trustLog[p] = <<"betrayed", "betrayed", "betrayed">>

\* C2 as stated: from trust 100, three updateTrust calls with 'betrayed' leave
\* the trust score at 20.
C2_ThreeBetrayalsLeave20 ==
  \A p \in PersonaIds : ThreeBetrayals(p) => enhancedMemoryCache[p].trust_score = 20

\* C2 as amended: from trust 100, three updateTrust calls with 'betrayed' leave
\* the trust score at 0 (100 -> 60 -> 20 -> 0: the third call is clamped at 0),
\* and 20 is the score after the second call.
C2_ThreeBetrayalsLeave0 ==
  \A p \in PersonaIds :
    /\ ThreeBetrayals(p) => enhancedMemoryCache[p].trust_score = 0
    /\ (trust0[p] = 100 /\ trustLog[p] = <<"betrayed", "betrayed">>)
         => enhancedMemoryCache[p].trust_score = 20

C2_Witness == \E p \in PersonaIds : ThreeBetrayals(p)

\* the change of trust C3 states for an emotion: the full delta when negative,
\* floor(d/3) of the nominal delta d when positive
C3_StatedDelta(emotion) ==
  CASE emotion = "frustrated" -> -15
    [] emotion = "angry" -> -25
    [] emotion = "betrayed" -> -40
    [] emotion = "satisfied" -> 1
    [] emotion = "delighted" -> 3
    [] emotion = "loyal" -> 5

RECURSIVE C3_StatedTrust(_, _)
C3_StatedTrust(trust, emotions) ==
  IF emotions = << >> THEN trust
  ELSE LET t == trust + C3_StatedDelta(Head(emotions))
           clamped == IF t < 0 THEN 0 ELSE IF t > 100 THEN 100 ELSE t
       IN  C3_StatedTrust(clamped, Tail(emotions))

OnlyCharged(emotions) ==
  \A i \in 1..Len(emotions) : emotions[i] \in NegativeEmotions \cup PositiveEmotions

\* C3: updateTrust is asymmetric: negative deltas (frustrated -15, angry -25,
\* betrayed -40) apply in full, a positive nominal delta d (satisfied 5,
\* delighted 10, loyal 15) applies as floor(d/3), then the score is clamped;
\* from trust 100, 'betrayed' then 'loyal' gives 100 -> 60 -> 65.
C3_AsymmetricRecovery ==
  \A p \in PersonaIds :
    /\ OnlyCharged(trustLog[p])
         => enhancedMemoryCache[p].trust_score = C3_StatedTrust(trust0[p], trustLog[p])
    /\ (trust0[p] = 100 /\ trustLog[p] = <<"betrayed">>)
         => enhancedMemoryCache[p].trust_score = 60
    /\ (trust0[p] = 100 /\ trustLog[p] = <<"betrayed", "loyal">>)
         => enhancedMemoryCache[p].trust_score = 65

C3_Witness ==
  \E p \in PersonaIds :
    /\ trust0[p] = 100
    /\ trustLog[p] = <<"betrayed", "loyal">>
    /\ enhancedMemoryCache[p].trust_score = 65

---------------------------------------------------------------------------
(* Visits of the followed persona.  The persona is visited once per turn:    *)
(* its k-th recorded visit carries turn number k.                            *)

NextTurn(p) == Len(visitLog[p]) + 1

\* recordVisit on persona p, the visit appended to the history variable
RecordLogged(p, visit) ==
  /\ recordVisit(p, visit)
  /\ visitLog' = [visitLog EXCEPT ![p] = Append(@, visit)]
  /\ UNCHANGED <<trust0, elsewhere, trustLog, turn>>

\* the price and quality of an ordinary day (advancedSimulate.js:69 and 78)
BasePrice == 500
BaseQuality == 8

\* a price perceived as outrageous after BasePrice
ExpensivePrice == 700

\* a price perceived as fair and one perceived as outrageous after BasePrice
HabitPrices == {BasePrice, ExpensivePrice}

---------------------------------------------------------------------------
(* Spec: the whole interface of the memory store (module.exports,            *)
(* enhancedMemory.js:376-385) on two personas of the population, for the     *)
(* first MaxCalls mutating calls since the population was built or reset,    *)
(* from a fresh population or from one with a regular customer, with the     *)
(* reading functions called for a persona the population does not hold too   *)

RECURSIVE StateAfterVisits(_, _)
StateAfterVisits(state, visits) ==
  IF visits = << >> THEN state
  ELSE StateAfterVisits(StateAfterVisit(state, Head(visits)), Tail(visits))

\* the visits that give a persona a routine: RoutineThreshold satisfied Buys
RegularVisits ==
  [k \in 1..RoutineThreshold |-> Visit(k, "Buy", BasePrice, BaseQuality, "satisfied")]

\* the MemoryState of a persona with those visits recorded
Regular == StateAfterVisits(DEFAULT_ENHANCED_STATE, RegularVisits)

\* the population after those recordVisit calls on the followed persona; the
\* history variables keep what is recorded from here on
InitRegular ==
  /\ enhancedMemoryCache =
       [i \in PersonaIds |-> IF i = Focus THEN Regular ELSE DEFAULT_ENHANCED_STATE]
  /\ persisted = enhancedMemoryCache
  /\ writable = TRUE
  /\ ret = Undefined
  /\ visitLog = EmptyLogs
  /\ trust0 = [i \in PersonaIds |-> DEFAULT_ENHANCED_STATE.trust_score]
  /\ trustLog = EmptyLogs
  /\ turn = IdleTurn
  /\ InitElsewhere

ApiKinds == { <<"Buy", "satisfied">>, <<"Skip", "frustrated">> }
ApiEmotions == {"loyal", "betrayed", "unknown"}

\* the personas the calls are made for: the followed one and another one
Neighbour == CHOOSE p \in PersonaIds : p # Focus
Pair == {Focus, Neighbour}

Calls == SumLen(visitLog, PersonaIds) + SumLen(trustLog, PersonaIds)

Record ==
  \E p \in Pair, k \in ApiKinds :
    /\ Calls < MaxCalls
    /\ RecordLogged(p, Visit(NextTurn(p), k[1], BasePrice, BaseQuality, k[2]))

Trust ==
  \E p \in Pair, e \in ApiEmotions :
    /\ Calls < MaxCalls
    /\ updateTrustWithEmotion(p, e)
    /\ trustLog' = [trustLog EXCEPT ![p] = Append(@, e)]
    /\ UNCHANGED <<visitLog, trust0, elsewhere, turn>>

\* a persona id with no state in the population
Stranger == NumPersonas + 1

Callers == {Focus, Stranger}

Habit ==
  \E p \in Callers :
    /\ checkHabitBreakage(p, ExpensivePrice)
    /\ UNCHANGED <<visitLog, trust0, elsewhere, trustLog, turn>>

PricePerception ==
  \E p \in Callers :
    /\ calculatePricePerception(p, BasePrice)
    /\ UNCHANGED <<visitLog, trust0, elsewhere, trustLog, turn>>

Context ==
  \E p \in Callers :
    /\ getDecisionContext(p, BasePrice)
    /\ UNCHANGED <<visitLog, trust0, elsewhere, trustLog, turn>>

\* the history variables start again with the population
Reset ==
  /\ resetAllEnhancedMemory
  /\ visitLog' = EmptyLogs
  /\ trustLog' = EmptyLogs
  /\ trust0' = [i \in PersonaIds |-> DEFAULT_ENHANCED_STATE.trust_score]
  /\ UNCHANGED <<turn, elsewhere>>

Next == Record \/ Trust \/ Habit \/ PricePerception \/ Context \/ Reset

InitStore == Init \/ InitRegular

Spec == InitStore /\ [][Next]_vars

---------------------------------------------------------------------------
(* SpecGrudge: the first MaxGrudgeVisits visits of a fresh persona, with     *)
(* every emotion                                                             *)

GrudgeDecisions == {"Buy", "Skip"}

RecordGrudge ==
  \E e \in Emotions, d \in GrudgeDecisions :
    /\ Len(visitLog[Focus]) < MaxGrudgeVisits
    /\ RecordLogged(Focus, Visit(NextTurn(Focus), d, BasePrice, BaseQuality, e))

NextGrudge == RecordGrudge

SpecGrudge == InitDefault /\ [][NextGrudge]_vars

---------------------------------------------------------------------------
(* SpecExperience: the first MaxVisits visits of a fresh persona, one emotion *)
(* of each kind, interleaved with updateTrustWithEmotion and                  *)
(* checkHabitBreakage calls                                                   *)

ExperienceKinds ==
  { <<"Buy", "satisfied">>, <<"Skip", "loyal">>,
    <<"Skip", "frustrated">>, <<"Switch", "neutral">> }

RecordExperience ==
  \E k \in ExperienceKinds :
    /\ Len(visitLog[Focus]) < MaxVisits
    /\ RecordLogged(Focus, Visit(NextTurn(Focus), k[1], BasePrice, BaseQuality, k[2]))

TrustExperience ==
  /\ updateTrustWithEmotion(Focus, "betrayed")
  /\ UNCHANGED <<visitLog, trust0, elsewhere, trustLog, turn>>

HabitExperience ==
  \E price \in HabitPrices :
    /\ checkHabitBreakage(Focus, price)
    /\ UNCHANGED <<visitLog, trust0, elsewhere, trustLog, turn>>

NextExperience == RecordExperience \/ TrustExperience \/ HabitExperience

SpecExperience == InitDefault /\ [][NextExperience]_vars

---------------------------------------------------------------------------
(* Claims about the experience state machine of recordVisit *)

Negative(visit) == visit.emotion \in {"frustrated", "angry", "betrayed"}
Positive(visit) == visit.emotion \in {"satisfied", "delighted", "loyal"}
PositiveBuy(visit) == Positive(visit) /\ visit.decision = "Buy"

Last(log) == log[Len(log)]

\* the step records a visit of persona p
Recorded(p) == Len(visitLog'[p]) = Len(visitLog[p]) + 1

\* the last n visits of the log exist and are all negative
EndsWithNegatives(log, n) ==
  /\ Len(log) >= n
  /\ \A j \in (Len(log) - n + 1)..Len(log) : Negative(log[j])

\* the log holds three negative visits in a row
ThreeInARow(log) ==
  \E i \in 1..(Len(log) - 2) : \A j \in i..(i + 2) : Negative(log[j])

Gone(p) == enhancedMemoryCache[p].flags.isPermanentlyGone
OnLastChance(p) == enhancedMemoryCache[p].flags.isOnLastChance
HasRoutine(p) == enhancedMemoryCache[p].experienceTracking.hasRoutine

\* C4: isPermanentlyGone is a one-way latch: once true, no recordVisit (whatever
\* its decision and emotion), updateTrustWithEmotion or checkHabitBreakage call
\* sets it back to false.
C4_GoneLatch ==
  [][\A p \in PersonaIds : Gone(p) => Gone(p)']_vars

\* gone, then a positive visit, then a habit check: still gone
C4_Witness ==
  /\ Gone(Focus)
  /\ Len(visitLog[Focus]) >= 4
  /\ Positive(Last(visitLog[Focus]))
  /\ ret.op = "checkHabitBreakage"

\* C5: from a fresh persona, isPermanentlyGone is false after the first and the
\* second consecutive negative visit and true from the third: it is true exactly
\* when three negative-emotion visits were recorded in a row, with no positive
\* or neutral visit between them.
C5_GoneAfterExactlyThree ==
  \A p \in PersonaIds : Gone(p) <=> ThreeInARow(visitLog[p])

C5_Witness ==
  /\ Len(visitLog[Focus]) = 3
  /\ EndsWithNegatives(visitLog[Focus], 3)
  /\ Gone(Focus)

\* the visit just recorded is the second negative visit in a row, and no more
SecondInARow(log) ==
  /\ EndsWithNegatives(log, 2)
  /\ ~EndsWithNegatives(log, 3)

\* a positive visit clears isOnLastChance; a third negative visit in a row sets
\* isPermanentlyGone
C6_ClearAndGone(p) ==
  /\ (Recorded(p) /\ Positive(Last(visitLog'[p]))) => ~OnLastChance(p)'
  /\ (Recorded(p) /\ EndsWithNegatives(visitLog'[p], 3)) => Gone(p)'

\* C6 as stated: the second consecutive negative visit sets isOnLastChance and
\* records its turn in lastChanceGivenTurn; a later positive visit clears
\* isOnLastChance; a third consecutive negative visit sets isPermanentlyGone.
C6_LastChanceRecordsTurn ==
  [][\A p \in PersonaIds :
       /\ (Recorded(p) /\ SecondInARow(visitLog'[p]))
            => /\ OnLastChance(p)'
               /\ enhancedMemoryCache'[p].flags.lastChanceGivenTurn
                    = Last(visitLog'[p]).turn
       /\ C6_ClearAndGone(p)]_vars

\* C6 as amended: the second consecutive negative visit leaves isOnLastChance
\* true; it records its turn in lastChanceGivenTurn when the persona was not on
\* its last chance already, and leaves lastChanceGivenTurn as it was otherwise
\* (a neutral visit restarts the count without clearing isOnLastChance); a
\* later positive visit clears isOnLastChance; a third consecutive negative
\* visit sets isPermanentlyGone.
C6_LastChanceLifecycle ==
  [][\A p \in PersonaIds :
       /\ (Recorded(p) /\ SecondInARow(visitLog'[p]))
            => /\ OnLastChance(p)'
               /\ enhancedMemoryCache'[p].flags.lastChanceGivenTurn
                    = IF OnLastChance(p)
                        THEN enhancedMemoryCache[p].flags.lastChanceGivenTurn
                        ELSE Last(visitLog'[p]).turn
       /\ C6_ClearAndGone(p)]_vars

\* on its last chance since turn 2, then a positive visit: the chance is cleared
C6_Witness ==
  /\ Len(visitLog[Focus]) = 3
  /\ Negative(visitLog[Focus][1]) /\ Negative(visitLog[Focus][2])
  /\ Positive(visitLog[Focus][3])
  /\ ~OnLastChance(Focus)
  /\ enhancedMemoryCache[Focus].flags.lastChanceGivenTurn = 2

\* positive-emotion Buy visits recorded since the last negative-emotion visit
RECURSIVE PositiveBuysSinceNegative(_)
PositiveBuysSinceNegative(log) ==
  IF log = << >> \/ Negative(Last(log)) THEN 0
  ELSE (IF PositiveBuy(Last(log)) THEN 1 ELSE 0)
         + PositiveBuysSinceNegative(SubSeq(log, 1, Len(log) - 1))

\* the last n visits of the log exist and are all positive-emotion Buys
EndsWithPositiveBuys(log, n) ==
  /\ Len(log) >= n
  /\ \A j \in (Len(log) - n + 1)..Len(log) : PositiveBuy(log[j])

\* C10: five consecutive recordVisit calls with decision Buy and a positive
\* emotion set hasRoutine; hasRoutine is not set by fewer than five
\* positive-emotion Buy visits since the last negative-emotion visit.
C10_RoutineAfterFiveBuys ==
  [][\A p \in PersonaIds :
       /\ (Recorded(p) /\ EndsWithPositiveBuys(visitLog'[p], 5)) => HasRoutine(p)'
       /\ (~HasRoutine(p) /\ HasRoutine(p)')
            => /\ Recorded(p)
               /\ PositiveBuysSinceNegative(visitLog'[p]) >= 5]_vars

C10_Witness ==
  /\ Len(visitLog[Focus]) = 5
  /\ EndsWithPositiveBuys(visitLog[Focus], 5)
  /\ HasRoutine(Focus)

---------------------------------------------------------------------------
(* SpecHistory: the first MaxHistVisits visits of a fresh persona *)

HistoryKinds == { <<"Buy", "satisfied">>, <<"Skip", "neutral">> }

RecordHistory ==
  \E k \in HistoryKinds :
    /\ Len(visitLog[Focus]) < MaxHistVisits
    /\ RecordLogged(Focus, Visit(NextTurn(Focus), k[1], BasePrice, BaseQuality, k[2]))

NextHistory == RecordHistory

SpecHistory == InitDefault /\ [][NextHistory]_vars

\* C8: after any number n of recordVisit calls, visitHistory has at most 10
\* entries and holds exactly the last min(n,10) recorded visits in recording
\* order; after 15 visits its length is 10 and it holds visits 6..15.
C8_HistoryBound ==
  \A p \in PersonaIds :
    LET log == visitLog[p]
        n == Len(log)
        history == enhancedMemoryCache[p].visitHistory
        kept == IF n < 10 THEN n ELSE 10
    IN  /\ Len(history) = kept
        /\ \A i \in 1..kept : history[i] = log[n - kept + i]
        /\ n = 15 => /\ Len(history) = 10
                     /\ \A i \in 1..10 : history[i].turn = 5 + i

C8_Witness ==
  /\ Len(visitLog[Focus]) = 15
  /\ Len(enhancedMemoryCache[Focus].visitHistory) = 10
  /\ enhancedMemoryCache[Focus].visitHistory[1].turn = 6

---------------------------------------------------------------------------
(* SpecAnchor: the first MaxAnchorVisits visits of a fresh persona, buying   *)
(* at changing prices, interleaved with the other operations of the store    *)

AnchorPrices == {400, BasePrice, 700}

RecordAnchor ==
  \E price \in AnchorPrices :
    /\ Len(visitLog[Focus]) < MaxAnchorVisits
    /\ RecordLogged(Focus, Visit(NextTurn(Focus), "Buy", price, BaseQuality, "satisfied"))

TrustAnchor ==
  /\ updateTrustWithEmotion(Focus, "betrayed")
  /\ UNCHANGED <<visitLog, trust0, elsewhere, trustLog, turn>>

HabitAnchor ==
  \E price \in AnchorPrices :
    /\ checkHabitBreakage(Focus, price)
    /\ UNCHANGED <<visitLog, trust0, elsewhere, trustLog, turn>>

ContextAnchor ==
  \E price \in AnchorPrices :
    /\ getDecisionContext(Focus, price)
    /\ UNCHANGED <<visitLog, trust0, elsewhere, trustLog, turn>>

NextAnchor == RecordAnchor \/ TrustAnchor \/ HabitAnchor \/ ContextAnchor

SpecAnchor == InitDefault /\ [][NextAnchor]_vars

\* C7: initialPrice is set by the first recordVisit of a persona to that
\* visit's price and no later recordVisit, updateTrustWithEmotion,
\* checkHabitBreakage or getDecisionContext call changes it.
C7_InitialPriceImmutable ==
  \A p \in PersonaIds :
    enhancedMemoryCache[p].priceAnchoring.initialPrice
      = IF visitLog[p] = << >> THEN Null ELSE visitLog[p][1].price

\* anchored at 5.00, then visits at other prices and a routine broken by a
\* habit check: the anchor is still 5.00
C7_Witness ==
  /\ Len(visitLog[Focus]) = MaxAnchorVisits
  /\ visitLog[Focus][1].price = 500
  /\ \A i \in 2..Len(visitLog[Focus]) : visitLog[Focus][i].price # 500
  /\ enhancedMemoryCache[Focus].experienceTracking.routineBrokenCount = 1
  /\ ret.op = "decisionContext"
  /\ enhancedMemoryCache[Focus].priceAnchoring.initialPrice = 500

---------------------------------------------------------------------------
(* SpecPerception: calculatePricePerception on a persona with no anchor, and *)
(* after visits that anchor it                                               *)

PerceptionPrices == {800, 900, 950, 1000, 1024, 1025, 1100, 1101, 1200}

RecordPerception ==
  \E price \in PerceptionPrices, d \in {"Buy", "Skip"} :
    /\ Len(visitLog[Focus]) < MaxPerceptionVisits
    /\ RecordLogged(Focus, Visit(NextTurn(Focus), d, price, BaseQuality, "neutral"))

Perceive ==
  \E price \in PerceptionPrices :
    /\ calculatePricePerception(Focus, price)
    /\ UNCHANGED <<visitLog, trust0, elsewhere, trustLog, turn>>

NextPerception == RecordPerception \/ Perceive

SpecPerception == InitDefault /\ [][NextPerception]_vars

\* the classification C9 states, for an anchor and a current price in cents
C9_Stated(initial, current) ==
  LET d == current - initial
      weighted == IF d > 0 THEN 2 * d ELSE d
      size == IF weighted < 0 THEN -weighted ELSE weighted
  IN  IF 100 * size < 5 * initial THEN "fair"
      ELSE IF 100 * weighted > 20 * initial THEN "outrageous"
      ELSE IF weighted > 0 THEN "expensive"
      ELSE IF 100 * weighted < -(10 * initial) THEN "cheap"
      ELSE "fair"

\* C9: calculatePricePerception returns 'unknown' when no initial price is
\* recorded, and otherwise classifies d = currentPrice - initialPrice, weighted
\* x2 when d > 0: |weighted| < 5% of initial is 'fair', weighted > 20% is
\* 'outrageous', weighted > 0 is 'expensive', weighted < -10% is 'cheap', else
\* 'fair'.  With initialPrice 10: 12 is 'outrageous', 9 'fair', 8 'cheap',
\* 9.50 'fair'.
C9_PricePerception ==
  ret.op = "pricePerception" =>
    LET initial == enhancedMemoryCache[Focus].priceAnchoring.initialPrice
        answer == ret.value.perception
    IN  /\ (visitLog[Focus] = << >>) => answer = "unknown"
        /\ (visitLog[Focus] # << >>) =>
             /\ initial = visitLog[Focus][1].price
             /\ answer = C9_Stated(initial, ret.price)
        /\ (visitLog[Focus] # << >> /\ initial = 1000) =>
             /\ ret.price = 1200 => answer = "outrageous"
             /\ ret.price = 900 => answer = "fair"
             /\ ret.price = 800 => answer = "cheap"
             /\ ret.price = 950 => answer = "fair"

C9_Witness ==
  /\ ret.op = "pricePerception"
  /\ visitLog[Focus] # << >>
  /\ enhancedMemoryCache[Focus].priceAnchoring.initialPrice = 1000
  /\ ret.price = 1200
  /\ ret.value.perception = "outrageous"

---------------------------------------------------------------------------
(* SpecHabit: the first MaxHabitVisits visits of a fresh persona at the      *)
(* ordinary price, with checkHabitBreakage called at prices perceived as     *)
(* cheap, fair, expensive and outrageous                                     *)

HabitKinds == { <<"Buy", "satisfied">>, <<"Skip", "frustrated">> }

\* against an anchor of BasePrice: cheap, fair, expensive, outrageous
HabitCheckPrices == {400, BasePrice, 530, 700}

RecordHabit ==
  \E k \in HabitKinds :
    /\ Len(visitLog[Focus]) < MaxHabitVisits
    /\ RecordLogged(Focus, Visit(NextTurn(Focus), k[1], BasePrice, BaseQuality, k[2]))

CheckHabit ==
  \E price \in HabitCheckPrices :
    /\ checkHabitBreakage(Focus, price)
    /\ UNCHANGED <<visitLog, trust0, elsewhere, trustLog, turn>>

NextHabit == RecordHabit \/ CheckHabit

SpecHabit == InitDefault /\ [][NextHabit]_vars

\* the step is a call of checkHabitBreakage (every other operation returns
\* something else; a call that changes nothing and returns what the last call
\* returned is a stuttering step)
HabitChecked == ret'.op = "checkHabitBreakage" /\ vars' # vars

---------------------------------------------------------------------------
(* SpecMomentum: calculateMarketMomentum applied to the result lists of up   *)
(* to MaxResults decisions (equal decisions adjacent), and                   *)
(* getMarketMoodLabel applied to the momentum it returned, as                *)
(* advancedSimulate.js:173 does                                              *)

\* a result list of b Buy, s Skip and w Switch decisions
ResultsOf(b, s, w) ==
  [i \in 1..(b + s + w) |->
     [decision |-> IF i <= b THEN "Buy" ELSE IF i <= b + s THEN "Skip" ELSE "Switch"]]

Momentum ==
  \E b \in 0..MaxResults, s \in 0..MaxResults, w \in 0..MaxResults :
    /\ b + s + w <= MaxResults
    /\ ret' = [op |-> "momentum", results |-> ResultsOf(b, s, w),
               value |-> calculateMarketMomentum(ResultsOf(b, s, w))]
    /\ UNCHANGED <<store, elsewhere>>

MoodLabel ==
  /\ ret.op = "momentum"
  /\ ret' = [op |-> "moodLabel", momentum |-> ret.value,
             label |-> getMarketMoodLabel(ret.value)]
  /\ UNCHANGED <<store, elsewhere>>

NextMomentum == Momentum \/ MoodLabel

SpecMomentum == InitDefault /\ [][NextMomentum]_vars

\* the number of results with decision d, counted one result at a time
RECURSIVE Tally(_, _)
Tally(results, d) ==
  IF results = << >> THEN 0
  ELSE (IF Head(results).decision = d THEN 1 ELSE 0) + Tally(Tail(results), d)

\* the ratio x is the number a / b
RatioIs(x, a, b) == x.num * b = a * x.den

\* C12: calculateMarketMomentum over a non-empty decision list returns
\* leaving = (skip + switch) / total, staying = buy / total and
\* switching = switch / total, with mood mass_exit if skip + switch is more
\* than 50% of the total, else mass_adoption if buy is more than 60% of the
\* total, else neutral; the empty list gives all-zero momentum; 7 Skip or
\* Switch and 3 Buy give leaving 0.7, staying 0.3 and mood mass_exit.
C12_Momentum ==
  ret.op = "momentum" =>
    LET total == Len(ret.results)
        buy == Tally(ret.results, "Buy")
        skip == Tally(ret.results, "Skip")
        switch == Tally(ret.results, "Switch")
        m == ret.value
    IN  /\ total = 0 =>
             m.leaving.num = 0 /\ m.staying.num = 0 /\ m.switching.num = 0
        /\ total > 0 =>
             /\ RatioIs(m.leaving, skip + switch, total)
             /\ RatioIs(m.staying, buy, total)
             /\ RatioIs(m.switching, switch, total)
             /\ m.mood = IF 2 * (skip + switch) > total THEN "mass_exit"
                         ELSE IF 5 * buy > 3 * total THEN "mass_adoption"
                         ELSE "neutral"
        /\ (total = 10 /\ buy = 3 /\ skip + switch = 7) =>
             /\ RatioIs(m.leaving, 7, 10)
             /\ RatioIs(m.staying, 3, 10)
             /\ m.mood = "mass_exit"

\* 4 Skip, 3 Switch and 3 Buy: leaving 0.7, staying 0.3, mass_exit
C12_Witness ==
  /\ ret.op = "momentum"
  /\ Len(ret.results) = 10
  /\ Tally(ret.results, "Buy") = 3
  /\ Tally(ret.results, "Skip") = 4
  /\ RatioIs(ret.value.leaving, 7, 10)
  /\ RatioIs(ret.value.staying, 3, 10)
  /\ RatioIs(ret.value.switching, 3, 10)
  /\ ret.value.mood = "mass_exit"

\* the rules of the market-mood label in their stated order: the quantity,
\* its threshold in percent and the label
C13_Rules ==
  << <<"leaving", 70, "Brand Crisis">>, <<"leaving", 50, "Mass Exodus">>,
     <<"leaving", 30, "Resentful">>, <<"staying", 80, "Viral Hype">>,
     <<"staying", 60, "FOMO Wave">>, <<"staying", 55, "Optimistic">>,
     <<"leaving", 55, "Skeptical">> >>

C13_Matches(momentum, rule) ==
  LET x == IF rule[1] = "leaving" THEN momentum.leaving ELSE momentum.staying
  IN  x.num * 100 >= rule[2] * x.den

\* the label of the first rule that matches, Balanced when none does
C13_FirstMatch(momentum) ==
  LET matching == {i \in DOMAIN C13_Rules : C13_Matches(momentum, C13_Rules[i])}
  IN  IF matching = {} THEN "Balanced"
      ELSE C13_Rules[CHOOSE i \in matching : \A j \in matching : i <= j][3]

\* C13: getMarketMoodLabel tries its rules in the order leaving >= 0.7 Brand
\* Crisis, leaving >= 0.5 Mass Exodus, leaving >= 0.3 Resentful, staying >=
\* 0.8 Viral Hype, staying >= 0.6 FOMO Wave, staying >= 0.55 Optimistic,
\* leaving >= 0.55 Skeptical, else Balanced, and returns the label of the
\* first rule that matches; leaving = 0.7 gives Brand Crisis.
C13_MoodLabel ==
  ret.op = "moodLabel" =>
    /\ ret.label = C13_FirstMatch(ret.momentum)
    /\ RatioIs(ret.momentum.leaving, 7, 10) => ret.label = "Brand Crisis"

\* leaving exactly 0.7 labelled Brand Crisis
C13_Witness ==
  /\ ret.op = "moodLabel"
  /\ ret.momentum.leaving = Ratio(7, 10)
  /\ ret.label = "Brand Crisis"

---------------------------------------------------------------------------
(* SpecTurn: one invocation of processBatchedSimulation on a default         *)
(* population of CatalogSize personas, shuffled into any rotation of the     *)
(* catalog, with every outcome of every oracle call and the calls of a       *)
(* batch settling in any order                                               *)

\* turnNumber = 1 (batchProcessor.js:64)
FirstTurn == 1

\* a throw, a text that is not JSON, two valid decisions and a decision
\* outside Buy, Skip, Switch
OracleAnswers ==
  {Throws, Unparseable, Json("Buy", "satisfied"), Json("Switch", "frustrated"),
   Json("Maybe", "angry")}

\* the shuffles that rotate the catalog
Rotations ==
  {f \in shuffles :
     \E k \in 0..(CatalogSize - 1) :
       \A i \in 1..CatalogSize : f[i] = ((i - 1 + k) % CatalogSize) + 1}

InitTurn ==
  /\ enhancedMemoryCache = [i \in Catalog |-> DEFAULT_ENHANCED_STATE]
  /\ persisted = [i \in Catalog |-> DEFAULT_ENHANCED_STATE]
  /\ writable = TRUE
  /\ ret = Undefined
  /\ visitLog = [i \in Catalog |-> << >>]
  /\ trust0 = [i \in Catalog |-> DEFAULT_ENHANCED_STATE.trust_score]
  /\ trustLog = [i \in Catalog |-> << >>]
  /\ turn = IdleTurn
  /\ InitElsewhere

RunTurn ==
  \E providerType \in ProviderTypes, shuffledPersonas \in Rotations :
    /\ processBatchedSimulation(BasePrice, BaseQuality, FirstTurn,
                                providerType, shuffledPersonas)
    /\ UNCHANGED <<visitLog, trust0, elsewhere, trustLog>>

Settle ==
  \E i \in 1..CatalogSize, answer \in OracleAnswers :
    /\ OracleSettles(i, answer)
    /\ UNCHANGED <<visitLog, trust0, elsewhere, trustLog>>

Barrier ==
  /\ NextBatch
  /\ UNCHANGED <<visitLog, trust0, elsewhere, trustLog>>

Return ==
  /\ Finalize
  /\ visitLog' = VisitLogAfterResults(visitLog, turn'.allResults, turn)
  /\ trustLog' = TrustLogAfterResults(trustLog, turn'.allResults)
  /\ UNCHANGED <<trust0, elsewhere>>

NextTurnStep == RunTurn \/ Settle \/ Barrier \/ Return

SpecTurn == InitTurn /\ [][NextTurnStep]_vars

---------------------------------------------------------------------------
(* Claims about the batches of a turn *)

\* the batch (counted from 1) of the persona at position i of the shuffle
BatchNo(i) == ((i - 1) \div BATCH_SIZE) + 1

\* the positions of the batches before the batch of position i
EarlierPositions(i) == {j \in DOMAIN turn.calls : BatchNo(j) < BatchNo(i)}

\* the number of positions in P whose result has decision d
Decided(P, d) == Cardinality({j \in P : turn.calls[j].result.decision = d})

\* C14: the momentum used for social pressure on, and passed to the oracle
\* for, every persona of batch N is the momentum over exactly the results of
\* batches 1..N-1 of the turn; batch 1 sees no momentum (null), and no
\* persona sees a result of its own batch or of a later one.
C14_BatchOrdering ==
  \A i \in DOMAIN turn.calls :
    turn.calls[i].state # "pending" =>
      LET m == turn.calls[i].momentum
          P == EarlierPositions(i)
          total == Cardinality(P)
          leaving == Decided(P, "Skip") + Decided(P, "Switch")
      IN  IF BatchNo(i) = 1
            THEN m = NullMomentum
            ELSE /\ m.mood # "null"
                 /\ RatioIs(m.leaving, leaving, total)
                 /\ RatioIs(m.staying, Decided(P, "Buy"), total)
                 /\ RatioIs(m.switching, Decided(P, "Switch"), total)
                 /\ m.mood = IF 2 * leaving > total THEN "mass_exit"
                             ELSE IF 5 * Decided(P, "Buy") > 3 * total
                                    THEN "mass_adoption"
                             ELSE "neutral"

\* a persona of batch 2 that bought, having been shown the mass exit of
\* batch 1 (two of three leaving), while a persona of batch 1 saw nothing
C14_Witness ==
  /\ turn.pc = "returned"
  /\ \E i \in DOMAIN turn.calls :
       /\ BatchNo(i) = 2
       /\ turn.calls[i].result.decision = "Buy"
       /\ RatioIs(turn.calls[i].momentum.leaving, 2, 3)
       /\ turn.calls[i].momentum.mood = "mass_exit"
  /\ \E j \in DOMAIN turn.calls :
       BatchNo(j) = 1 /\ turn.calls[j].momentum = NullMomentum

\* C15: within a turn no oracle call of batch N+1 is started, and momentum is
\* not recomputed, until every oracle call of batch N has settled (returned a
\* decision or failed); the batches are processed strictly in index order.
C15_BatchBarrier ==
  [][ /\ \A i \in DOMAIN turn'.calls :
           turn'.calls[i].state # "pending" =>
             \A j \in DOMAIN turn'.calls :
               BatchNo(j) < BatchNo(i) => turn'.calls[j].state = "settled"
      /\ (turn'.currentMomentum # turn.currentMomentum
            \/ turn'.batchIndex # turn.batchIndex) =>
           /\ \A j \in DOMAIN turn.calls :
                BatchNo(j) <= turn.batchIndex + 1 => turn.calls[j].state = "settled"
           /\ turn'.batchIndex = turn.batchIndex + 1 ]_vars

\* batch 2 running after a batch 1 in which one call failed and two returned
C15_Witness ==
  /\ turn.pc = "awaiting"
  /\ turn.batchIndex = 1
  /\ \E i \in DOMAIN turn.calls : BatchNo(i) = 2 /\ turn.calls[i].state = "running"
  /\ \E j \in DOMAIN turn.calls : BatchNo(j) = 1 /\ turn.calls[j].answer = Throws
  /\ \E j \in DOMAIN turn.calls :
       BatchNo(j) = 1 /\ turn.calls[j].answer = Json("Buy", "satisfied")

\* the MemoryState of persona p before the turn
Untouched(p) ==
  enhancedMemoryCache[p] = [DEFAULT_ENHANCED_STATE EXCEPT !.trust_score = trust0[p]]

\* the results of the bundle that are about persona p
ResultsAbout(p) == {k \in DOMAIN ret.results : ret.results[k].personaId = p}

Malformed(answer) ==
  \/ answer.kind = "unparseable"
  \/ answer.kind = "json" /\ answer.decision \notin Decisions

\* C17: when the oracle answers with a malformed response or with a decision
\* that is not one of Buy, Skip, Switch, the persona's result has decision
\* Skip, is marked as an error entry and is excluded from the memory writes
\* (no visit recorded, no trust update), while still counted in the aggregates.
C17_MalformedIsError ==
  turn.pc = "returned" =>
    \A i \in DOMAIN turn.calls :
      Malformed(turn.calls[i].answer) =>
        LET p == turn.shuffledPersonas[i]
        IN  /\ \A k \in ResultsAbout(p) :
                 ret.results[k].decision = "Skip" /\ ret.results[k].error
            /\ Untouched(p)
            /\ ret.summary.totalPersonas = CatalogSize

\* C18: within one turn no recordVisit or updateTrust call happens before the
\* oracle calls of the last batch have all settled; every read of a
\* MemoryState made for a persona's evaluation precedes every write of the
\* turn.
C18_ReadsBeforeWrites ==
  [][ /\ enhancedMemoryCache' # enhancedMemoryCache =>
           /\ turn.calls # << >>
           /\ \A i \in DOMAIN turn.calls : turn.calls[i].state = "settled"
      /\ (\E i \in DOMAIN turn'.calls :
              \/ i \notin DOMAIN turn.calls
              \/ turn'.calls[i].state # turn.calls[i].state) =>
           /\ \A p \in Catalog : Untouched(p)
           /\ enhancedMemoryCache' = enhancedMemoryCache ]_vars

\* the memory written at the return of a turn of two batches
C18_Witness ==
  /\ turn.pc = "returned"
  /\ turn.batchIndex = 2
  /\ \E p \in Catalog : ~Untouched(p)
  /\ \E i \in DOMAIN turn.calls :
       /\ BatchNo(i) = 2
       /\ turn.calls[i].state = "settled"
       /\ ~Untouched(turn.shuffledPersonas[i])

\* C19: if every oracle call of a turn fails, runTurn surfaces a turn-level
\* failure to the caller; if at least one succeeds, the turn is reported as
\* successful.
C19_AllFailedIsFailure ==
  turn.pc = "returned" =>
    IF \A i \in DOMAIN turn.calls : turn.calls[i].answer.kind = "throws"
      THEN ret.op = "runTurn" /\ ~ret.success
      ELSE ret.op = "runTurn" /\ ret.success

\* C20: runTurn never throws: a turn-level failure, such as the provider not
\* being constructible, is returned as a structured result with success =
\* false.
C20_NeverThrows ==
  /\ turn.pc # "thrown"
  /\ ret.op # "throw"

---------------------------------------------------------------------------
(* Claims about the returned bundle *)

\* the sum of two quotients is one
SumIsOne(x, y) == x.num * y.den + y.num * x.den = x.den * y.den

\* C21: every result of the bundle a turn returns has a decision among Buy,
\* Skip and Switch, whatever the oracle answered; the three counts of the
\* summary add up to totalPersonas, and for a non-empty result list
\* momentum.leaving + momentum.staying = 1.
C21_DecisionsValid ==
  ret.op = "runTurn" =>
    /\ \A k \in DOMAIN ret.results : ret.results[k].decision \in Decisions
    /\ ret.summary.buyCount + ret.summary.skipCount + ret.summary.switchCount
         = ret.summary.totalPersonas
    /\ ret.summary.totalPersonas = Len(ret.results)
    /\ Len(ret.results) > 0 => SumIsOne(ret.momentum.leaving, ret.momentum.staying)

\* a returned turn in which one oracle answered a decision outside the three,
\* another could not be parsed and a third threw
C21_Witness ==
  /\ ret.op = "runTurn"
  /\ \E i, j, k \in DOMAIN turn.calls :
       /\ turn.calls[i].answer = Json("Maybe", "angry")
       /\ turn.calls[i].result.decision = "Skip"
       /\ turn.calls[j].answer = Unparseable
       /\ turn.calls[k].answer = Throws
       /\ ret.summary.skipCount >= 3

---------------------------------------------------------------------------
(* SpecShuffle: one invocation of processBatchedSimulation on a default      *)
(* population, shuffled into any order, every oracle call answering Buy or   *)
(* throwing                                                                  *)

ShuffleAnswers == {Throws, Json("Buy", "satisfied")}

RunShuffled ==
  \E shuffledPersonas \in shuffles :
    /\ processBatchedSimulation(BasePrice, BaseQuality, FirstTurn,
                                "openai", shuffledPersonas)
    /\ UNCHANGED <<visitLog, trust0, elsewhere, trustLog>>

SettleShuffled ==
  \E i \in 1..CatalogSize, answer \in ShuffleAnswers :
    /\ OracleSettles(i, answer)
    /\ UNCHANGED <<visitLog, trust0, elsewhere, trustLog>>

NextShuffle == RunShuffled \/ SettleShuffled \/ Barrier \/ Return

SpecShuffle == InitTurn /\ [][NextShuffle]_vars

\* the positions whose oracle call has been started
Started == {i \in DOMAIN turn.calls : turn.calls[i].state # "pending"}

\* the positions of the results about persona p in the returned bundle
ResultPositions(p) == {k \in DOMAIN ret.results : ret.results[k].personaId = p}

---------------------------------------------------------------------------
(* Claims about emotions outside the table *)

\* C23: an emotion outside the known set (satisfied, delighted, loyal,
\* neutral, frustrated, angry, betrayed), a missing one included, is never
\* raised as an error: updateTrust applies a delta of 0 and leaves the trust
\* score unchanged.
C23_UnknownEmotionKeepsTrust ==
  \A p \in PersonaIds :
    (\A i \in DOMAIN trustLog[p] : trustLog[p][i] \notin KnownEmotions)
      => /\ enhancedMemoryCache[p].trust_score = trust0[p]
         /\ persisted[p].trust_score = trust0[p]

---------------------------------------------------------------------------
(* SpecDisk: the mutating operations of the memory store on a regular        *)
(* customer, then one invocation of processBatchedSimulation, on a file      *)
(* system whose writes start and stop failing at any moment                  *)

\* the turn after the visits the persona's history holds
TurnAfterHistory(p) == Len(enhancedMemoryCache[p].visitHistory) + 1

DiskCalls == Len(visitLog[Focus]) + Len(trustLog[Focus])

\* writes start to fail (disk full, file not writable) or succeed again
DiskChanges ==
  /\ writable' = ~writable
  /\ UNCHANGED <<enhancedMemoryCache, persisted, ret, visitLog, trust0, elsewhere, trustLog, turn>>

DiskRecord ==
  /\ turn.pc = "idle"
  /\ DiskCalls < MaxCalls
  /\ RecordLogged(Focus, Visit(TurnAfterHistory(Focus), "Buy", BasePrice, BaseQuality,
                               "satisfied"))

DiskTrust ==
  /\ turn.pc = "idle"
  /\ DiskCalls < MaxCalls
  /\ updateTrustWithEmotion(Focus, "betrayed")
  /\ trustLog' = [trustLog EXCEPT ![Focus] = Append(@, "betrayed")]
  /\ UNCHANGED <<visitLog, trust0, elsewhere, turn>>

DiskHabit ==
  \E price \in HabitPrices :
    /\ turn.pc = "idle"
    /\ checkHabitBreakage(Focus, price)
    /\ UNCHANGED <<visitLog, trust0, elsewhere, trustLog, turn>>

DiskContext ==
  /\ getDecisionContext(Focus, BasePrice)
  /\ UNCHANGED <<visitLog, trust0, elsewhere, trustLog, turn>>

DiskReset ==
  /\ turn.pc = "idle"
  /\ Reset

DiskSettle ==
  \E i \in 1..CatalogSize :
    /\ OracleSettles(i, Json("Buy", "satisfied"))
    /\ UNCHANGED <<visitLog, trust0, elsewhere, trustLog>>

\* the catalog in its own order
InOrder == [i \in 1..CatalogSize |-> i]

DiskRunTurn ==
  /\ processBatchedSimulation(BasePrice, BaseQuality, FirstTurn, "openai", InOrder)
  /\ UNCHANGED <<visitLog, trust0, elsewhere, trustLog>>

NextDisk ==
  \/ DiskChanges \/ DiskRecord \/ DiskTrust \/ DiskHabit \/ DiskContext \/ DiskReset
  \/ DiskRunTurn \/ DiskSettle \/ Barrier \/ Return

SpecDisk == InitRegular /\ [][NextDisk]_vars

\* C24: a persistence failure during save is swallowed: recordVisit,
\* updateTrust, checkHabitBreakage and resetAll still complete without
\* raising, the in-memory state keeps the mutation and is what later reads
\* return, and the turn is not aborted.
C24_SaveFailureSwallowed ==
  [][ (~writable /\ ~writable') =>
        /\ ret' # Thrown
        /\ turn'.pc # "thrown"
        /\ \A p \in PersonaIds :
             /\ Len(visitLog'[p]) > Len(visitLog[p]) =>
                  /\ Last(enhancedMemoryCache'[p].visitHistory) = Last(visitLog'[p])
                  /\ enhancedMemoryCache'[p].lifetimeStats.totalVisits
                       = enhancedMemoryCache[p].lifetimeStats.totalVisits + 1
             /\ (Len(trustLog'[p]) > Len(trustLog[p]) /\ Last(trustLog'[p]) = "betrayed") =>
                  enhancedMemoryCache'[p].trust_score
                    = Max(0, enhancedMemoryCache[p].trust_score - 40)
        /\ (turn' = turn /\ ret'.op = "updateTrust") =>
             ret'.trust = enhancedMemoryCache'[Focus].trust_score
        /\ (turn' = turn /\ ret'.op = "checkHabitBreakage"
               /\ enhancedMemoryCache' # enhancedMemoryCache) =>
             /\ ret'.habitBroken
             /\ ~enhancedMemoryCache'[Focus].experienceTracking.hasRoutine
             /\ enhancedMemoryCache'[Focus].experienceTracking.routineBrokenCount
                  = enhancedMemoryCache[Focus].experienceTracking.routineBrokenCount + 1
        /\ (visitLog # EmptyLogs /\ visitLog' = EmptyLogs) =>
             \A p \in PersonaIds : enhancedMemoryCache'[p] = DEFAULT_ENHANCED_STATE
        /\ (turn' = turn /\ ret'.op = "decisionContext") =>
             /\ ret'.value.trust = enhancedMemoryCache[Focus].trust_score
             /\ ret'.value.lifetimeStats = enhancedMemoryCache[Focus].lifetimeStats
             /\ ret'.value.habitStatus.hasRoutine
                  = enhancedMemoryCache[Focus].experienceTracking.hasRoutine
        /\ (turn.pc = "awaiting" /\ turn'.pc = "returned") =>
             /\ ret'.op = "runTurn"
             /\ Len(ret'.results) = CatalogSize
    ]_vars

\* with writes failing, the persona's routine was broken and a turn returned
\* its bundle and recorded a visit; a read then returned the state the cache
\* holds, which the file does not
C24_Witness ==
  /\ ~writable
  /\ turn.pc = "returned"
  /\ ret.op = "decisionContext"
  /\ ret.value.habitStatus.routineBrokenCount = 1
  /\ persisted[Focus] = Regular
  /\ ret.value.lifetimeStats.totalVisits = RoutineThreshold + 1

---------------------------------------------------------------------------
(* Claims about the store as a whole *)

\* C25: write-through: every operation of the memory store that changes the
\* in-memory cache, the lazy creation of a default state by get included,
\* persists the whole cache before it returns; with no operation in progress
\* and saves succeeding, the persisted store equals the in-memory cache.
C25_WriteThrough ==
  writable => persisted = enhancedMemoryCache

\* C26: after resetAll, from any reachable state, every persona's MemoryState
\* is the default state (trust 100, empty visit history, null price anchors,
\* zero counters, all flags false, isPermanentlyGone and hasRoutine
\* included), and a later get on any persona returns that default.
C26_ResetRestoresDefaults ==
  [][ /\ ret'.op = "resetAll" =>
           \A p \in DOMAIN enhancedMemoryCache' :
             LET state == enhancedMemoryCache'[p]
             IN  /\ state = DEFAULT_ENHANCED_STATE
                 /\ state.trust_score = 100
                 /\ state.visitHistory = << >>
                 /\ state.priceAnchoring.initialPrice = Null
                 /\ state.priceAnchoring.lastPricePaid = Null
                 /\ state.experienceTracking.consecutiveFrustrations = 0
                 /\ state.experienceTracking.consecutiveBuys = 0
                 /\ state.experienceTracking.routineBrokenCount = 0
                 /\ state.lifetimeStats.totalVisits = 0
                 /\ ~state.experienceTracking.hasRoutine
                 /\ ~state.flags.isPermanentlyGone
                 /\ ~state.flags.isOnLastChance
      /\ (ret.op = "resetAll" /\ ret'.op \in {"decisionContext", "pricePerception",
                                               "checkHabitBreakage"}) =>
           /\ \A q \in DOMAIN enhancedMemoryCache' :
                enhancedMemoryCache'[q] = DEFAULT_ENHANCED_STATE
           /\ ret'.op = "decisionContext" =>
                /\ ret'.value.trust = 100
                /\ ret'.value.visitHistory = << >>
                /\ ~ret'.value.habitStatus.hasRoutine
                /\ ~ret'.value.frustrationStatus.isPermanentlyGone
                /\ ret'.value.lifetimeStats.totalVisits = 0
    ]_vars

\* resetAll has returned, and the population holds the default state for
\* every persona and nothing for a persona it did not hold
C26_Witness ==
  /\ ret.op = "resetAll"
  /\ DOMAIN enhancedMemoryCache = PersonaIds
  /\ \A p \in PersonaIds : enhancedMemoryCache[p].trust_score = 100
  /\ persisted = enhancedMemoryCache

\* the personas whose MemoryState a step changes
Changed == {p \in DOMAIN enhancedMemoryCache :
              enhancedMemoryCache'[p] # enhancedMemoryCache[p]}

\* C27: the records of the personas are independent: recordVisit,
\* updateTrustWithEmotion and checkHabitBreakage for persona A leave the
\* MemoryState of every other persona B unchanged, also when A and B were
\* both created from the default state.
C27_PersonasIndependent ==
  [][ ret'.op # "resetAll" =>
        /\ \A A \in PersonaIds :
             (visitLog'[A] # visitLog[A] \/ trustLog'[A] # trustLog[A]) =>
               Changed \subseteq {A}
        /\ Cardinality(Changed) <= 1
        /\ \A B \in PersonaIds :
             (visitLog'[B] = visitLog[B] /\ trustLog'[B] = trustLog[B]
                /\ ret'.op # "checkHabitBreakage") =>
               enhancedMemoryCache'[B] = enhancedMemoryCache[B]
    ]_vars

\* a visit and a trust update were made for one persona while the other,
\* created from the same default state, still holds it
C27_Witness ==
  /\ trust0[Focus] = trust0[Neighbour]
  /\ Len(visitLog[Focus]) = 1
  /\ Len(trustLog[Focus]) = 1
  /\ enhancedMemoryCache[Focus].trust_score # trust0[Focus]
  /\ visitLog[Neighbour] = << >>
  /\ trustLog[Neighbour] = << >>
  /\ enhancedMemoryCache[Neighbour]
       = [DEFAULT_ENHANCED_STATE EXCEPT !.trust_score = trust0[Neighbour]]

---------------------------------------------------------------------------
(* SpecNeutral: the first MaxNeutralVisits visits of a fresh persona, with a *)
(* positive, a negative, a neutral and an unknown emotion                    *)

\* the best quality a request can carry (advancedSimulate.js:41)
TopQuality == 10

NeutralKinds ==
  { <<"Buy", "satisfied", BaseQuality>>, <<"Skip", "frustrated", BaseQuality>>,
    <<"Buy", "neutral", TopQuality>>, <<"Skip", "unknown", TopQuality>> }

RecordNeutral ==
  \E k \in NeutralKinds :
    /\ Len(visitLog[Focus]) < MaxNeutralVisits
    /\ RecordLogged(Focus, Visit(NextTurn(Focus), k[1], BasePrice, k[3], k[2]))

NextNeutral == RecordNeutral

SpecNeutral == InitDefault /\ [][NextNeutral]_vars

\* the step records a visit of the followed persona with an emotion that is
\* neither negative nor positive
NeutralVisitRecorded ==
  /\ Len(visitLog'[Focus]) > Len(visitLog[Focus])
  /\ ~Negative(Last(visitLog'[Focus]))
  /\ ~Positive(Last(visitLog'[Focus]))

\* C28: a recordVisit with a neutral (or unknown) emotion resets
\* consecutiveFrustrations to 0 and has no other effect on the experience
\* state machine: consecutiveBuys, hasRoutine, isOnLastChance,
\* lastChanceGivenTurn, isPermanentlyGone, timesDisappointed, timesDelighted
\* and peakExperience are unchanged.
C28_NeutralVisit ==
  [][ NeutralVisitRecorded =>
        LET before == enhancedMemoryCache[Focus]
            after == enhancedMemoryCache'[Focus]
        IN  /\ after.experienceTracking.consecutiveFrustrations = 0
            /\ after.experienceTracking.consecutiveBuys
                 = before.experienceTracking.consecutiveBuys
            /\ after.experienceTracking.hasRoutine = before.experienceTracking.hasRoutine
            /\ after.experienceTracking.peakExperience
                 = before.experienceTracking.peakExperience
            /\ after.flags = before.flags
            /\ after.lifetimeStats.timesDisappointed
                 = before.lifetimeStats.timesDisappointed
            /\ after.lifetimeStats.timesDelighted = before.lifetimeStats.timesDelighted
    ]_vars

\* a neutral visit of better quality than the peak, after a routine had
\* formed and two frustrations had given the last chance: the routine, the
\* last chance and the peak stand, the count of frustrations is 0
C28_Witness ==
  /\ visitLog[Focus] # << >>
  /\ Last(visitLog[Focus]).emotion = "neutral"
  /\ Last(visitLog[Focus]).quality > enhancedMemoryCache[Focus].experienceTracking.peakExperience.quality
  /\ enhancedMemoryCache[Focus].experienceTracking.peakExperience # NoPeak
  /\ enhancedMemoryCache[Focus].experienceTracking.hasRoutine
  /\ enhancedMemoryCache[Focus].flags.isOnLastChance
  /\ enhancedMemoryCache[Focus].experienceTracking.consecutiveFrustrations = 0
  /\ enhancedMemoryCache[Focus].lifetimeStats.timesDisappointed = LastChanceAt

---------------------------------------------------------------------------
(* SpecPressure: applySocialPressure applied once, as batchProcessor.js:     *)
(* 99-104 does, to a sensitivity and a social weight between 0 and 1 and to  *)
(* the momentum of a non-empty result list of up to MaxResults decisions     *)

\* values of calculateEffectivePriceSensitivity, which is bounded to 0..1
Sensitivities == {Zero, Ratio(5, 100), Ratio(1, 2), Ratio(95, 100), One}

\* values of persona.socialInfluenceWeight
SocialWeights == {Zero, Ratio(3, 10), One}

Pressure ==
  \E b \in 0..MaxResults, s \in 0..MaxResults, w \in 0..MaxResults,
     baseSensitivity \in Sensitivities, socialWeight \in SocialWeights :
    /\ ret = Undefined
    /\ b + s + w >= 1
    /\ b + s + w <= MaxResults
    /\ LET momentum == calculateMarketMomentum(ResultsOf(b, s, w))
       IN  ret' = [op |-> "socialPressure", base |-> baseSensitivity,
                   weight |-> socialWeight, momentum |-> momentum,
                   value |-> applySocialPressure([socialInfluenceWeight |-> socialWeight],
                                                 baseSensitivity, momentum)]
    /\ UNCHANGED <<store, elsewhere>>

NextPressure == Pressure

SpecPressure == InitDefault /\ [][NextPressure]_vars

\* the number base + (part - percent/100) * weight * factor/10
Shifted(base, part, percent, weight, factor) ==
  Reduced(Ratio(base.num * (part.den * 100 * weight.den * 10)
                  + base.den * (100 * part.num - percent * part.den) * weight.num * factor,
                base.den * part.den * 100 * weight.den * 10))

\* C29: applySocialPressure with base sensitivity and socialInfluenceWeight
\* in [0,1]: if momentum.leaving > 0.3 it returns
\* min(1, base + (leaving - 0.3) * weight * 0.5), also when staying > 0.6;
\* else if momentum.staying > 0.6 it returns
\* max(0, base - (staying - 0.6) * weight * 0.3); otherwise it returns base
\* unchanged; the result is always in [0,1].
C29_SocialPressure ==
  ret.op = "socialPressure" =>
    LET leaving == ret.momentum.leaving
        staying == ret.momentum.staying
        value == ret.value
    IN  /\ ~Greater(Zero, value)
        /\ ~Greater(value, One)
        /\ IF 10 * leaving.num > 3 * leaving.den
             THEN LET raised == Shifted(ret.base, leaving, 30, ret.weight, 5)
                  IN  IF Greater(raised, One) THEN Same(value, One)
                                              ELSE Same(value, raised)
             ELSE IF 10 * staying.num > 6 * staying.den
               THEN LET lowered == Shifted(ret.base, staying, 60, ret.weight, -3)
                    IN  IF Greater(Zero, lowered) THEN Same(value, Zero)
                                                  ELSE Same(value, lowered)
             ELSE value = ret.base
        /\ (Same(ret.base, Ratio(1, 2)) /\ Same(ret.weight, One)
               /\ Same(leaving, Ratio(1, 3)) /\ Same(staying, Ratio(2, 3)))
             => Same(value, Ratio(31, 60))
        /\ (Same(ret.base, Ratio(1, 2)) /\ Same(ret.weight, One)
               /\ Same(leaving, Ratio(1, 10)) /\ Same(staying, Ratio(9, 10)))
             => Same(value, Ratio(41, 100))

\* one of three customers is leaving and two are staying: both thresholds are
\* passed and the sensitivity is raised
C29_Witness ==
  /\ ret.op = "socialPressure"
  /\ Same(ret.momentum.leaving, Ratio(1, 3))
  /\ Greater(ret.momentum.staying, Ratio(6, 10))
  /\ Same(ret.base, Ratio(1, 2))
  /\ Same(ret.weight, One)
  /\ Greater(ret.value, ret.base)

---------------------------------------------------------------------------
(* generateEmotionalContext, contextGenerator.js:98-140, with the flags of   *)
(* generateTemporalContext (lines 82-87) it reads                            *)

\* contextGenerator.js:9
MOODS == <<"terrible", "bad", "neutral", "good", "great">>

\* contextGenerator.js:60 and 64: some days of DAYS and some times of day
DaysOfWeek == {"Monday", "Wednesday", "Friday", "Saturday"}
TimesOfDay == {"morning", "afternoon"}

\* contextGenerator.js:82-87: the flags of a day and a time (Saturday is the
\* day of index 5)
TemporalFlags(dayOfWeek, timeOfDay) ==
  [ isWeekend |-> dayOfWeek = "Saturday",
    isMondayMorning |-> dayOfWeek = "Monday" /\ timeOfDay = "morning",
    isFridayAfternoon |-> dayOfWeek = "Friday" /\ timeOfDay = "afternoon" ]

\* Math.random() in quarters and persona.moodVariance in tenths
RandomQuarters == 0..3
MoodVariances == {0, 3, 5, 10}

\* contextGenerator.js:103: Math.floor((Math.random() - 0.5) * moodVariance * 4),
\* which is floor((quarters - 2) * tenths / 10)
MoodNoise(quarters, tenths) == ((quarters - 2) * tenths) \div 10

\* a comparison with NaN is false
Below(a, b) == a # NaN /\ a < b
Above(a, b) == a # NaN /\ a > b

\* Math.max(0, i - 1) and Math.min(4, i + 1)
MoodDown(i) == Max(0, i - 1)
MoodUp(i) == Min(4, i + 1)

generateEmotionalContextClampedAtEnd(persona, temporal, memoryState, quarters) ==
  LET stats == memoryState.lifetimeStats
      total == 2 + MoodNoise(quarters, persona.moodVariance)
                 - (IF temporal.isMondayMorning THEN 1 ELSE 0)
                 + (IF temporal.isFridayAfternoon THEN 1 ELSE 0)
                 + (IF temporal.isWeekend /\ persona.archetype = "Professional"
                      THEN 1 ELSE 0)
                 - (IF Below(memoryState.trust_score, 50) THEN 1 ELSE 0)
                 + (IF Above(memoryState.trust_score, 80) THEN 1 ELSE 0)
                 - (IF stats.timesDisappointed > stats.timesDelighted THEN 1 ELSE 0)
      moodIndex == Max(0, Min(4, total))
  IN  [ currentMood |-> MOODS[moodIndex + 1], moodIndex |-> moodIndex,
        isBadMood |-> moodIndex <= 1, isGoodMood |-> moodIndex >= 3 ]

generateEmotionalContext(persona, temporal, memoryState, quarters) ==
  LET stats == memoryState.lifetimeStats
      variance == MoodNoise(quarters, persona.moodVariance)
      i0 == Max(0, Min(4, 2 + variance))
      i1 == IF temporal.isMondayMorning THEN MoodDown(i0) ELSE i0
      i2 == IF temporal.isFridayAfternoon THEN MoodUp(i1) ELSE i1
      i3 == IF temporal.isWeekend /\ persona.archetype = "Professional"
              THEN MoodUp(i2) ELSE i2
      i4 == IF Below(memoryState.trust_score, 50) THEN MoodDown(i3) ELSE i3
      i5 == IF Above(memoryState.trust_score, 80) THEN MoodUp(i4) ELSE i4
      moodIndex == IF stats.timesDisappointed > stats.timesDelighted
                     THEN MoodDown(i5) ELSE i5
  IN  [ currentMood |-> MOODS[moodIndex + 1], moodIndex |-> moodIndex,
        isBadMood |-> moodIndex <= 1, isGoodMood |-> moodIndex >= 3 ]

---------------------------------------------------------------------------
(* SpecMood: the first MaxMoodCalls visits and the first MaxMoodCalls trust  *)
(* updates of a persona, and the emotional context generated for it on any   *)
(* day, at any time, with any noise                                          *)

MoodArchetypes == {"Professional", "Student"}

MoodKinds == { <<"Buy", "satisfied">>, <<"Skip", "frustrated">> }

MoodVisit ==
  \E k \in MoodKinds :
    /\ Len(visitLog[Focus]) < MaxMoodCalls
    /\ RecordLogged(Focus, Visit(NextTurn(Focus), k[1], BasePrice, BaseQuality, k[2]))

MoodTrust ==
  /\ Len(trustLog[Focus]) < MaxMoodCalls
  /\ updateTrustWithEmotion(Focus, "frustrated")
  /\ trustLog' = [trustLog EXCEPT ![Focus] = Append(@, "frustrated")]
  /\ UNCHANGED <<visitLog, trust0, elsewhere, turn>>

Emotional ==
  \E dayOfWeek \in DaysOfWeek, timeOfDay \in TimesOfDay, quarters \in RandomQuarters,
     moodVariance \in MoodVariances, archetype \in MoodArchetypes :
    LET persona == [archetype |-> archetype, moodVariance |-> moodVariance]
        temporal == TemporalFlags(dayOfWeek, timeOfDay)
        memoryState == enhancedMemoryCache[Focus]
    IN  /\ ret' = [op |-> "emotional", persona |-> persona, temporal |-> temporal,
                   noise |-> MoodNoise(quarters, moodVariance),
                   trust |-> memoryState.trust_score,
                   disappointed |-> memoryState.lifetimeStats.timesDisappointed,
                   delighted |-> memoryState.lifetimeStats.timesDelighted,
                   value |-> generateEmotionalContext(persona, temporal, memoryState,
                                                      quarters)]
        /\ UNCHANGED <<store, elsewhere>>

NextMood == MoodVisit \/ MoodTrust \/ Emotional

SpecMood == Init /\ [][NextMood]_vars

\* the six modifiers of a generated context, in the order of the code
MoodModifiers(r) ==
  << IF r.temporal.isMondayMorning THEN -1 ELSE 0,
     IF r.temporal.isFridayAfternoon THEN 1 ELSE 0,
     IF r.temporal.isWeekend /\ r.persona.archetype = "Professional" THEN 1 ELSE 0,
     IF r.trust < 50 THEN -1 ELSE 0,
     IF r.trust > 80 THEN 1 ELSE 0,
     IF r.disappointed > r.delighted THEN -1 ELSE 0 >>

InScale(i) == IF i < 0 THEN 0 ELSE IF i > 4 THEN 4 ELSE i

RECURSIVE SumOf(_)
SumOf(seq) == IF seq = << >> THEN 0 ELSE Head(seq) + SumOf(Tail(seq))

\* the index after the modifiers of seq, brought back into the scale after
\* each of them
RECURSIVE StepByStep(_, _)
StepByStep(i, seq) ==
  IF seq = << >> THEN i ELSE StepByStep(InScale(i + Head(seq)), Tail(seq))

\* C30 (as stated): the mood index is 2 plus the noise plus the six modifiers,
\* clamped to [0,4] once at the end.
C30_ClampedAtEnd ==
  ret.op = "emotional" =>
    ret.value.moodIndex = InScale(2 + ret.noise + SumOf(MoodModifiers(ret)))

\* C30 (amended): the mood index is obtained by starting at 2, adding the
\* noise term and clamping to [0,4], then applying the modifiers Monday-morning
\* (-1), Friday-afternoon (+1), weekend-and-Professional (+1), trust<50 (-1),
\* trust>80 (+1), disappointments>delights (-1) in that order, clamping to
\* [0,4] after each of them; the index is always in [0,4], and the mood label
\* and the two flags follow from it.
C30_ClampedStepwise ==
  ret.op = "emotional" =>
    /\ ret.value.moodIndex \in 0..4
    /\ ret.value.moodIndex = StepByStep(InScale(2 + ret.noise), MoodModifiers(ret))
    /\ ret.value.currentMood = MOODS[ret.value.moodIndex + 1]
    /\ ret.value.isBadMood = (ret.value.moodIndex <= 1)
    /\ ret.value.isGoodMood = (ret.value.moodIndex >= 3)

\* a Friday afternoon with noise +1 for a trusting persona with more
\* disappointments than delights: the index reaches the top of the scale
\* before the last modifier takes it down to 3
C30_Witness ==
  /\ ret.op = "emotional"
  /\ ret.noise = 1
  /\ ret.temporal.isFridayAfternoon
  /\ ret.trust > 80
  /\ ret.disappointed > ret.delighted
  /\ ret.value.moodIndex = 3
  /\ InScale(2 + ret.noise + SumOf(MoodModifiers(ret))) = 4

---------------------------------------------------------------------------
(* The market-mood label of the momentum of a result list (SpecMomentum)     *)

\* C32: for the momentum calculateMarketMomentum computes from a non-empty
\* result list with decisions among Buy, Skip and Switch, getMarketMoodLabel
\* never returns 'Optimistic' or 'Skeptical'; it returns 'Balanced' for the
\* empty list and for no other.
C32_UnreachableLabels ==
  [][ (ret.op = "momentum" /\ ret'.op = "moodLabel") =>
        /\ (ret'.label = "Balanced") <=> (Len(ret.results) = 0)
        /\ Len(ret.results) > 0 => ret'.label \notin {"Optimistic", "Skeptical"} ]_vars

\* 4 of 7 are staying (57%, between the 55% of 'Optimistic' and the 60% of
\* 'FOMO Wave') and the label is 'Resentful', for the 43% that are leaving
C32_Witness ==
  /\ ret.op = "moodLabel"
  /\ RatioIs(ret.momentum.staying, 4, 7)
  /\ RatioIs(ret.momentum.leaving, 3, 7)
  /\ ret.label = "Resentful"

---------------------------------------------------------------------------
(* The last chance and the count of consecutive frustrations (SpecNeutral)   *)

\* the number of negative visits at the end of a log
RECURSIVE TrailingNegatives(_)
TrailingNegatives(log) ==
  IF log = << >> \/ ~Negative(log[Len(log)]) THEN 0
  ELSE 1 + TrailingNegatives(SubSeq(log, 1, Len(log) - 1))

\* C33 (as stated): in every state reached by recordVisit calls from a fresh
\* persona, isOnLastChance = true implies consecutiveFrustrations >= 2.
C33_LastChanceImpliesTwoFrustrations ==
  enhancedMemoryCache[Focus].flags.isOnLastChance
    => enhancedMemoryCache[Focus].experienceTracking.consecutiveFrustrations >= 2

\* C33 (amended): in every state reached by recordVisit calls from a fresh
\* persona, isOnLastChance = true implies that two consecutive negative visits
\* were recorded and no positive visit after them; consecutiveFrustrations is
\* the number of negative visits since the last visit that was not negative,
\* so it is >= 2 as long as no neutral visit followed the two, and 0 or more
\* after one.
C33_LastChanceSinceTwoNegatives ==
  LET log == visitLog[Focus]
      state == enhancedMemoryCache[Focus]
  IN  /\ state.experienceTracking.consecutiveFrustrations = TrailingNegatives(log)
      /\ state.flags.isOnLastChance =>
           \E i \in 1..(Len(log) - 1) :
             /\ Negative(log[i])
             /\ Negative(log[i + 1])
             /\ \A j \in (i + 2)..Len(log) : ~Positive(log[j])
             /\ (\A j \in (i + 2)..Len(log) : Negative(log[j]))
                  => state.experienceTracking.consecutiveFrustrations >= 2

\* frustrated, frustrated, then a neutral visit: still on the last chance,
\* with no consecutive frustration
C33_Witness ==
  /\ Len(visitLog[Focus]) = 3
  /\ Negative(visitLog[Focus][1])
  /\ Negative(visitLog[Focus][2])
  /\ ~Negative(visitLog[Focus][3])
  /\ enhancedMemoryCache[Focus].flags.isOnLastChance
  /\ enhancedMemoryCache[Focus].experienceTracking.consecutiveFrustrations = 0

---------------------------------------------------------------------------
(* A routine broken by checkHabitBreakage and formed again (SpecExperience)  *)

\* the routine is lost while the run of buys that formed it still stands
RoutineLost(state) ==
  /\ ~state.experienceTracking.hasRoutine
  /\ state.experienceTracking.consecutiveBuys >= RoutineThreshold

\* C34: checkHabitBreakage does not reset consecutiveBuys: after it breaks the
\* routine of a persona with consecutiveBuys >= 5, hasRoutine is false and
\* consecutiveBuys is still >= 5; this lasts over every later call that
\* records no negative-emotion visit, and the first positive-emotion Buy visit
\* sets hasRoutine back to true.
C34_RoutineFormsAgain ==
  [][ LET before == enhancedMemoryCache[Focus]
          after  == enhancedMemoryCache'[Focus]
      IN  /\ (HabitChecked /\ ret'.habitBroken) =>
                /\ after.experienceTracking.consecutiveBuys
                     = before.experienceTracking.consecutiveBuys
                /\ ~after.experienceTracking.hasRoutine
                /\ before.experienceTracking.consecutiveBuys >= RoutineThreshold
                     => RoutineLost(after)
          /\ RoutineLost(before) =>
                /\ before.experienceTracking.routineBrokenCount >= 1
                /\ ~Recorded(Focus) => RoutineLost(after)
                /\ (Recorded(Focus) /\ PositiveBuy(Last(visitLog'[Focus])))
                     => after.experienceTracking.hasRoutine
                /\ (Recorded(Focus) /\ ~PositiveBuy(Last(visitLog'[Focus]))
                      /\ ~Negative(Last(visitLog'[Focus])))
                     => RoutineLost(after) ]_vars

\* five buys, the routine broken at the expensive price, and one more buy: the
\* routine is back, after a single break
C34_Witness ==
  /\ Len(visitLog[Focus]) = RoutineThreshold + 1
  /\ \A i \in 1..(RoutineThreshold + 1) : PositiveBuy(visitLog[Focus][i])
  /\ enhancedMemoryCache[Focus].experienceTracking.routineBrokenCount = 1
  /\ enhancedMemoryCache[Focus].experienceTracking.hasRoutine
  /\ enhancedMemoryCache[Focus].experienceTracking.consecutiveBuys = RoutineThreshold + 1

---------------------------------------------------------------------------
(* SpecRoutine: two requests in a row on a population with a regular         *)
(* customer, each at the ordinary or at the expensive price, the oracle      *)
(* answering with a satisfied Buy or a frustrated Skip                       *)

\* the turn number of the second request (advancedSimulate.js:43)
SecondTurn == 2

RoutineAnswers == {Json("Buy", "satisfied"), Json("Skip", "frustrated")}

\* the turn number of the next request: the requests come in order
TurnToRun == IF ret = Undefined THEN FirstTurn ELSE ret.turnNumber + 1

RoutineRunTurn ==
  \E price \in HabitPrices :
    /\ TurnToRun <= SecondTurn
    /\ processBatchedSimulation(price, BaseQuality, TurnToRun, "openai", InOrder)
    /\ UNCHANGED <<visitLog, trust0, elsewhere, trustLog>>

RoutineSettle ==
  \E i \in 1..CatalogSize, answer \in RoutineAnswers :
    /\ OracleSettles(i, answer)
    /\ UNCHANGED <<visitLog, trust0, elsewhere, trustLog>>

\* the route has sent its response (advancedSimulate.js:99-190): the frame of
\* the invocation is gone
Respond ==
  /\ turn.pc = "returned"
  /\ turn' = IdleTurn
  /\ UNCHANGED <<enhancedMemoryCache, persisted, writable, ret, visitLog, trust0, elsewhere, trustLog>>

NextRoutine == RoutineRunTurn \/ RoutineSettle \/ Barrier \/ Return \/ Respond

SpecRoutine == InitRegular /\ [][NextRoutine]_vars

\* C35: across any sequence of turns, whatever the prices, the orchestrator
\* never breaks a routine: a persona that has a routine keeps it in every
\* step, and routineBrokenCount is 0 for every persona, also when the turn's
\* price is perceived as expensive or outrageous.
C35_TurnsKeepRoutines ==
  [][ /\ \A p \in DOMAIN enhancedMemoryCache :
           enhancedMemoryCache[p].experienceTracking.hasRoutine
             => /\ p \in DOMAIN enhancedMemoryCache'
                /\ enhancedMemoryCache'[p].experienceTracking.hasRoutine
      /\ \A p \in DOMAIN enhancedMemoryCache' :
           enhancedMemoryCache'[p].experienceTracking.routineBrokenCount = 0 ]_vars

\* the second turn has returned; both turns were run at the expensive price,
\* which the regular customer, frustrated twice, perceives as expensive
C35_Witness ==
  /\ turn.pc = "returned"
  /\ turn.turnNumber = SecondTurn
  /\ turn.price = ExpensivePrice
  /\ Len(visitLog[Focus]) = 2
  /\ \A k \in 1..2 : visitLog[Focus][k].price = ExpensivePrice /\ Negative(visitLog[Focus][k])
  /\ PricePerceptionOf(enhancedMemoryCache[Focus], ExpensivePrice).perception
       \in {"expensive", "outrageous"}
  /\ enhancedMemoryCache[Focus].experienceTracking.hasRoutine
  /\ enhancedMemoryCache[Focus].experienceTracking.routineBrokenCount = 0

---------------------------------------------------------------------------
(* SpecLegacy: the first MaxLegacyCalls writing calls on the legacy store,   *)
(* started without a memory file or with one, and applyTrustModifier with    *)
(* the price sensitivities of the legacy catalog                             *)

\* the priceSensitivity labels of the personas (unnamed/part_001:191-249)
CatalogSensitivities ==
  {"none", "very-low", "low", "low-medium", "medium-low", "medium", "high", "very-high"}

\* trust changes within the -50..+20 of personaMemory.js:97
TrustChanges == {-45, 20}

InitLegacy ==
  /\ InitEnhanced([i \in PersonaIds |-> DEFAULT_ENHANCED_STATE.trust_score])
  /\ InitOracle
  /\ InitOverlap
  /\ legacyCalls = 0
  /\ InitLegacyFresh \/ InitLegacyLoaded

LegacyTrust ==
  \E p \in PersonaIds, delta \in TrustChanges :
    /\ legacyCalls < MaxLegacyCalls
    /\ updateTrustScore(p, delta)
    /\ legacyCalls' = legacyCalls + 1
    /\ UNCHANGED <<store, oracle, overlap>>

LegacyDecision ==
  \E p \in PersonaIds :
    /\ legacyCalls < MaxLegacyCalls
    /\ recordDecision(p, TRUE, BasePrice)
    /\ legacyCalls' = legacyCalls + 1
    /\ UNCHANGED <<store, oracle, overlap>>

LegacyModifier ==
  \E p \in PersonaIds, baseSensitivity \in CatalogSensitivities :
    /\ applyTrustModifier(p, baseSensitivity)
    /\ UNCHANGED <<store, legacyCalls, oracle, overlap>>

LegacyReset ==
  /\ legacyCalls > 0
  /\ legacyCalls < MaxLegacyCalls
  /\ resetAllMemory
  /\ legacyCalls' = legacyCalls + 1
  /\ UNCHANGED <<store, oracle, overlap>>

NextLegacy == LegacyTrust \/ LegacyDecision \/ LegacyModifier \/ LegacyReset

SpecLegacy == InitLegacy /\ [][NextLegacy]_vars

\* C31: for every price-sensitivity label carried by a persona of the legacy
\* catalog and every trust score, applyTrustModifier returns a level of the
\* sensitivity scale whose position is never below the base level's: the same
\* level for trust >= 60, one level up for 30 <= trust < 60, two levels up for
\* trust < 30, capped at 'very-high'.
C31_TrustModifierLevels ==
  ret.op = "applyTrustModifier" =>
    LET base == indexOf(sensitivityLevels, ret.baseSensitivity)
        adjusted == indexOf(sensitivityLevels, ret.adjustedSensitivity)
        levels == IF ret.trustScore >= 60 THEN 0 ELSE IF ret.trustScore >= 30 THEN 1 ELSE 2
    IN  /\ adjusted >= 0
        /\ adjusted >= base
        /\ adjusted = Min(base + levels, Len(sensitivityLevels) - 1)

\* C39: in the legacy store, updateTrustScore and recordDecision for persona A
\* leave the memory list and the lifetime_stats of every other persona B as
\* they were, also when A and B were default-initialized in the same process.
C39_LegacyPersonasIndependent ==
  [][ \A A \in PersonaIds, B \in PersonaIds :
        (A # B /\ legacyCalls' = legacyCalls + 1 /\ ret'.op # "resetAllMemory"
           /\ ret'.personaId = A)
          => /\ Seen(memoryCache', heap', B).memory = Seen(memoryCache, heap, B).memory
             /\ Seen(memoryCache', heap', B).lifetime_stats
                  = Seen(memoryCache, heap, B).lifetime_stats ]_vars

---------------------------------------------------------------------------
(* SpecThreads: MaxThreadCalls invocations of getOrCreateThread, made by the *)
(* simulatePersona callbacks of the requests in flight, in any order and     *)
(* for any personas                                                          *)

ThreadAsked ==
  \E c \in ThreadCallers, p \in PersonaIds :
    /\ getOrCreateThread(c, p) \/ ThreadRequested(c, p)
    /\ UNCHANGED <<store, ret, legacy, agent, overlap>>

ThreadAnswered ==
  \E c \in ThreadCallers :
    /\ ThreadCreated(c) \/ ThreadRefused(c)
    /\ UNCHANGED <<store, ret, legacy, agent, overlap>>

NextThreads == ThreadAsked \/ ThreadAnswered

SpecThreads == InitDefault /\ [][NextThreads]_vars

\* C37: at most one oracle conversation thread is ever created per persona:
\* when getOrCreateThread invocations for the same persona overlap, only one
\* thread is created, every invocation returns the same thread id, and that
\* id stays the persona's thread.
C37_OneThreadPerPersona ==
  /\ remoteThreads <= Cardinality(DOMAIN threadMap)
  /\ \A c \in ThreadCallers :
       threadCalls[c].pc = "returned"
         => threadCalls[c].value = threadMap[threadCalls[c].personaId]


---------------------------------------------------------------------------
(* One oracle call followed through simulatePersona, sendMessageAndRun and *)
(* runAgent (oProvider.js:104-149, oThreadManager.js:47-160); the other    *)
(* calls of the turn settle in one step each.  Every remote call returns   *)
(* or throws.                                                              *)

\* oThreadManager.js:75
maxAttempts == 60

\* the statuses runs.retrieve can report: the ones the loop looks for, and
\* one for every other status (queued, in_progress, requires_action)
RunStatuses == {"in_progress", "completed", "failed", "cancelled", "expired"}

\* mutant of EndsRun: only a failed run throws in the loop
EndsRunOnFailureOnly(status) == status = "failed"

\* oThreadManager.js:82-92: the statuses that throw in the loop
EndsRun(status) == status \in {"failed", "cancelled", "expired"}

\* the loop condition of oThreadManager.js:77
Polls(status, attempts) == status /= "completed" /\ attempts < maxAttempts

\* where runAgent goes once a retrieve has answered (oThreadManager.js:73-96);
\* polled tells the retrieve of the loop from the one before it
RunAgentAfter(status, attempts, polled) ==
  IF polled /\ EndsRun(status) THEN status
  ELSE IF Polls(status, attempts) THEN "sleeping"
  ELSE IF status /= "completed" THEN "timeout"
  ELSE "listing"

\* the getOrCreateThread invocation of the call followed
AgentCaller == CHOOSE c \in ThreadCallers : TRUE

\* what messages.list can hold (oThreadManager.js:99-137): no message, a
\* message with no text, a text that is not JSON, and JSON texts
ListedAnswers == OracleAnswers \ {Throws}
ListErrors == {"no response", "no text"}

\* what a remote call fails with
TransportError == "transport"

\* simulatePersona returns (oProvider.js:118-146): with the decision, or from
\* its catch block with the error thrown under it; the locals of runAgent are
\* gone
AgentEnds(frame, answer, error) ==
  /\ OracleSettles(frame.position, answer)
  /\ agent' = [NoAgent EXCEPT !.pc = "done", !.position = frame.position,
                              !.error = error]

\* oProvider.js:104-110, oThreadManager.js:19-27: the callback of position i
\* has called simulatePersona, which asks for the thread
AgentCalled ==
  \E i \in 1..CatalogSize :
    /\ agent.pc = "idle"
    /\ i \in DOMAIN turn.calls
    /\ turn.calls[i].state = "running"
    /\ \/ /\ getOrCreateThread(AgentCaller, turn.shuffledPersonas[i])
          /\ agent' = [agent EXCEPT !.pc = "adding", !.position = i]
       \/ /\ ThreadRequested(AgentCaller, turn.shuffledPersonas[i])
          /\ agent' = [agent EXCEPT !.pc = "thread", !.position = i]
    /\ UNCHANGED <<store, ret, legacy, overlap>>

\* oThreadManager.js:27-38, oProvider.js:110-116: threads.create has answered
\* and messages.create is called
AgentThreadCreated ==
  /\ agent.pc = "thread"
  /\ ThreadCreated(AgentCaller)
  /\ agent' = [agent EXCEPT !.pc = "adding"]
  /\ UNCHANGED <<store, ret, legacy, overlap>>

\* oThreadManager.js:27, oProvider.js:134: threads.create has thrown
AgentThreadRefused ==
  /\ agent.pc = "thread"
  /\ ThreadRefused(AgentCaller)
  /\ AgentEnds(agent, Throws, TransportError)
  /\ UNCHANGED <<visitLog, trust0, trustLog, legacy, overlap>>

\* oThreadManager.js:47-53, 61-73: messages.create, then runs.create, has
\* answered and the next remote call is made
AgentCallAnswered ==
  /\ agent.pc \in {"adding", "starting"}
  /\ agent' = [agent EXCEPT !.pc = IF @ = "adding" THEN "starting" ELSE "retrieving"]
  /\ UNCHANGED <<store, ret, legacy, overlap, threadMap, remoteThreads, threadCalls>>

\* a remote call of sendMessageAndRun or runAgent has thrown: rethrown at
\* oThreadManager.js:157, caught at oProvider.js:134
AgentCallThrows ==
  /\ agent.pc \in {"adding", "starting", "retrieving", "polling", "listing"}
  /\ AgentEnds(agent, Throws, TransportError)
  /\ UNCHANGED <<visitLog, trust0, trustLog, legacy, overlap, threadMap, remoteThreads, threadCalls>>

\* oThreadManager.js:73-96: a runs.retrieve has answered
AgentRetrieved ==
  \E status \in RunStatuses :
    LET polled == agent.pc = "polling"
        attempts == IF polled THEN agent.attempts + 1 ELSE agent.attempts
        after == RunAgentAfter(status, attempts, polled)
        frame == [agent EXCEPT !.status = status, !.attempts = attempts]
    IN  /\ agent.pc \in {"retrieving", "polling"}
        /\ IF after \in {"sleeping", "listing"}
             THEN /\ agent' = [frame EXCEPT !.pc = after]
                  /\ UNCHANGED <<store, ret>>
             ELSE /\ AgentEnds(frame, Throws, after)
                  /\ UNCHANGED <<visitLog, trust0, trustLog>>
        /\ UNCHANGED <<legacy, overlap, threadMap, remoteThreads, threadCalls>>

\* oThreadManager.js:78-79: the second of the loop has passed and
\* runs.retrieve is called again
AgentWoke ==
  /\ agent.pc = "sleeping"
  /\ agent' = [agent EXCEPT !.pc = "polling"]
  /\ UNCHANGED <<store, ret, legacy, overlap, threadMap, remoteThreads, threadCalls>>

\* oThreadManager.js:99-137: messages.list has answered with a text
AgentListed ==
  \E answer \in ListedAnswers :
    /\ agent.pc = "listing"
    /\ AgentEnds(agent, answer, "none")
    /\ UNCHANGED <<visitLog, trust0, trustLog, legacy, overlap, threadMap, remoteThreads, threadCalls>>

\* oThreadManager.js:104-113: messages.list has answered with no message or
\* with a message that has no text
AgentListedNothing ==
  \E error \in ListErrors :
    /\ agent.pc = "listing"
    /\ AgentEnds(agent, Throws, error)
    /\ UNCHANGED <<visitLog, trust0, trustLog, legacy, overlap, threadMap, remoteThreads, threadCalls>>

\* what the call at position i comes to when it is not the one followed: a
\* throw at every second position, a purchase at the others
OtherAnswer(i) == IF i % 2 = 0 THEN Throws ELSE Json("Buy", "satisfied")

\* a call that is not the one followed settles
AgentOtherSettles ==
  \E i \in 1..CatalogSize :
    /\ i /= agent.position
    /\ OracleSettles(i, OtherAnswer(i))
    /\ UNCHANGED <<visitLog, trust0, elsewhere, trustLog>>

\* the request followed: the first turn, the personas in catalog order
AgentRunTurn ==
  /\ processBatchedSimulation(BasePrice, BaseQuality, FirstTurn, "openai", InOrder)
  /\ UNCHANGED <<visitLog, trust0, elsewhere, trustLog>>

NextAgent ==
  \/ AgentRunTurn \/ Barrier \/ Return \/ AgentOtherSettles
  \/ AgentCalled \/ AgentThreadCreated \/ AgentThreadRefused
  \/ AgentCallAnswered \/ AgentCallThrows \/ AgentRetrieved \/ AgentWoke
  \/ AgentListed \/ AgentListedNothing

SpecAgent == InitTurn /\ [][NextAgent]_vars

\* every remote call returns or throws, every timer fires, and the event loop
\* runs every continuation that is ready
SpecAgentFair == SpecAgent /\ WF_vars(NextAgent)

\* the result of the call followed, once simulatePersona has returned
AgentResult == turn.calls[agent.position].result

\* C38: runAgent polls at most maxAttempts times; a failed, cancelled or
\* expired status met in the loop ends the run at once and a run not completed
\* after maxAttempts polls ends in the timeout error; simulatePersona returns a
\* Skip flagged error for every throw and a decision of Buy, Skip or Switch
\* otherwise; and with every remote call answering, the call followed ends, as
\* does the turn
C38_OracleCallsTerminate ==
  /\ [](agent.attempts <= maxAttempts)
  /\ [][agent.pc = "polling" /\ agent'.pc = "sleeping"
          => agent'.status \notin {"failed", "cancelled", "expired"}]_vars
  /\ [][agent.pc /= "done" /\ agent'.pc = "done" /\ agent'.error = "timeout"
          => agent.attempts + 1 = maxAttempts]_vars
  /\ [](agent.pc = "done"
          => /\ turn.calls[agent.position].state = "settled"
             /\ IF agent.error = "none"
                  THEN ~AgentResult.error /\ AgentResult.decision \in {"Buy", "Skip", "Switch"}
                  ELSE AgentResult.error /\ AgentResult.decision = "Skip")
  /\ (agent.pc /= "idle" ~> agent.pc = "done")
  /\ (turn.pc = "awaiting" ~> turn.pc = "returned")

\* a run polled maxAttempts times without completing has timed out, the call
\* is a Skip flagged error and the turn has returned
C38_Witness ==
  /\ agent.pc = "done"
  /\ agent.error = "timeout"
  /\ AgentResult.error
  /\ turn.pc = "returned"


---------------------------------------------------------------------------
(* Two requests in flight: router.post awaits processBatchedSimulation     *)
(* (advancedSimulate.js:99) and nothing keeps a second request from being  *)
(* handled while the first awaits its oracle calls.  turn is the frame of  *)
(* the invocation the event loop is running, flight the frame of the other *)

\* the turn numbers of the two requests
OverlapTurns == {FirstTurn, SecondTurn}

\* what the calls of the two requests come to
OverlapAnswers == {Json("Buy", "satisfied")}

\* seen after the callbacks of turn n have read the states of the personas ids
\* (getEnhancedMemoryState and getDecisionContext, batchProcessor.js:95-110)
SeenWith(n, ids, cache) ==
  [m \in (DOMAIN seen) \cup {n} |->
     [p \in (IF m \in DOMAIN seen THEN DOMAIN seen[m] ELSE {})
              \cup (IF m = n THEN ids ELSE {}) |->
        IF m = n /\ p \in ids THEN cache[p] ELSE seen[m][p]]]

\* a request arrives: processBatchedSimulation runs to its first await
OverlapRunTurn ==
  \E n \in OverlapTurns :
    /\ n \notin DOMAIN seen
    /\ processBatchedSimulation(BasePrice, BaseQuality, n, "openai", InOrder)
    /\ seen' = SeenWith(n, BatchPersonas(InOrder, 0), enhancedMemoryCache')
    /\ UNCHANGED <<visitLog, trust0, trustLog, legacy, oracle, flight>>

OverlapSettle ==
  \E i \in 1..CatalogSize, answer \in OverlapAnswers :
    /\ OracleSettles(i, answer)
    /\ UNCHANGED <<visitLog, trust0, elsewhere, trustLog>>

\* the callbacks of the next batch read their personas' states
OverlapBarrier ==
  /\ NextBatch
  /\ seen' = SeenWith(turn.turnNumber,
                      BatchPersonas(turn.shuffledPersonas, turn.batchIndex + 1),
                      enhancedMemoryCache')
  /\ UNCHANGED <<visitLog, trust0, trustLog, legacy, oracle, flight>>

\* the event loop turns to the other invocation, or to a request not yet
\* handled
Swap ==
  /\ turn /= flight
  /\ turn' = flight
  /\ flight' = turn
  /\ UNCHANGED <<enhancedMemoryCache, persisted, writable, ret, visitLog, trust0,
                 trustLog, legacy, oracle, seen>>

NextOverlap == OverlapRunTurn \/ OverlapSettle \/ OverlapBarrier \/ Return \/ Swap

SpecOverlap == InitTurn /\ [][NextOverlap]_vars

\* C36: when an invocation reaches its finalize pass, every persona's
\* MemoryState is the one the invocation's callback read for the context
C36_ContextStillInEffect ==
  [][turn.pc = "awaiting" /\ turn'.pc = "returned" /\ flight' = flight
       => \A p \in DOMAIN seen[turn.turnNumber] :
            enhancedMemoryCache[p] = seen[turn.turnNumber][p]]_vars

=============================================================================
